---- MODULE Spec2Model ----
(***************************************************************************)
(* Model of package sequence (geofduf/run-length): a run-length encoded    *)
(* time series of 2-bit values.  A Sequence is the record                  *)
(*   [ts, frequency, length, count, data]                                  *)
(* where data is the byte string of varint records, exactly as the Go      *)
(* struct keeps it.  Every method is a pure operator from the sequence     *)
(* before the call to the sequence after it (plus the returned error), and *)
(* an action applies one method to the modelled sequence.                  *)
(*                                                                         *)
(* Go's uint32 arithmetic is kept, at the reduced width UintBits (TLC's    *)
(* integers are 32-bit signed, so 2^32 - 1 itself is not representable);   *)
(* the width still gives records of every size from 1 to 5 bytes.          *)
(* MaxSequenceLength is the largest value of that width, as in the source. *)
(* Go's integer division truncates toward zero: Quot and Rem.              *)
(*                                                                         *)
(* Roll and TrimLeft are not part of the available sources (only their     *)
(* tests and callers are): they are modelled from the specification text.  *)
(***************************************************************************)
EXTENDS Integers, Sequences, FiniteSets, TLC

\* ------------------------------------------------------------------ bounds
UintBits == 28          \* modelled width of Go's uint32
Epoch == 0              \* reference timestamp handed to the constructor
MaxFreq == 2            \* constructor frequencies are 0..MaxFreq
MaxVals == 2            \* NewWithValues is given at most MaxVals samples
MaxTime == 3            \* Add/Roll/TrimLeft times are Epoch-1 .. Epoch+MaxTime
MaxLen == 2             \* SetLength arguments are 0..MaxLen
MaxRun == 40            \* every run length 1..MaxRun is encoded
MaxList == 3            \* every sample list of at most MaxList samples is built
MaxDur == 4             \* grouping intervals are 0..MaxDur seconds

\* ------------------------------------------------------- program constants
sizeTimestamp == 4
sizeFrequency == 2
sizeLength == 4
sizeCounter == 4
indexTimestamp == 0
indexFrequency == indexTimestamp + sizeTimestamp
indexLength == indexFrequency + sizeFrequency
indexCounter == indexLength + sizeLength
indexData == indexCounter + sizeCounter
flagBits == 2
flagBitsMask == 2^flagBits - 1
StateInactive == 0
StateActive == 1
StateUnknown == 2
StateNotUsed == 3
MaxSequenceLength == 2^UintBits - 1

ErrNil == "nil"
ErrOutOfBounds == "out of bounds"
ErrCannotOverwrite == "cannot overwrite value"

\* ------------------------------------------------------ integer arithmetic
\* Go's x / y on signed integers: truncation toward zero.
Quot(x, y) == IF x >= 0 THEN x \div y ELSE -((-x) \div y)
\* Go's x % y on signed integers: the sign follows the dividend.
Rem(x, y) == x - y * Quot(x, y)
\* conversion to the unsigned type of length and count
Uint(x) == x % (2^UintBits)

ceilInt64(x, step) ==
  LET r == Rem(x, step)
  IN IF r # 0 THEN x + step - r ELSE x

\* ------------------------------------------------------------------- codec
RECURSIVE encodeLoop(_)
encodeLoop(x) ==
  IF x >= 128 THEN <<(x % 128) + 128>> \o encodeLoop(x \div 128)
  ELSE <<x>>

\* encode without s[0] |= value
encode_DropsValue(count, value) == encodeLoop(count * (2^flagBits))

\* encode always filling its five bytes
encode_FiveBytes(count, value) ==
  LET x == count * (2^flagBits)
  IN <<(x % 128) + 128 + value, ((x \div 128) % 128) + 128,
       ((x \div (128^2)) % 128) + 128, ((x \div (128^3)) % 128) + 128,
       (x \div (128^4)) % 128>>

\* count << flagBits has its two low bits clear and callers pass value <= 3,
\* so s[0] |= value adds value to the first byte.
encode(count, value) ==
  LET s == encodeLoop(count * (2^flagBits))
  IN [s EXCEPT ![1] = s[1] + value]

\* decode(buf): (count, value, bytes read), or (0, 0, 0) for a malformed buf.
\* uint32(b & 0x7f) << shift drops the bits shifted out of the width; the
\* groups do not overlap, so x |= ... adds.
decodeError == [n |-> 0, v |-> 0, bytes |-> 0]

decodeGroup(b, shift) ==
  IF shift >= UintBits THEN 0
  ELSE ((b % 128) % (2^(UintBits - shift))) * (2^shift)

RECURSIVE decodeLoop(_, _, _, _)
decodeLoop(buf, i, x, shift) ==
  IF i < Len(buf)
  THEN IF buf[i] < 128 THEN decodeError
       ELSE decodeLoop(buf, i + 1, x + decodeGroup(buf[i + 1], shift),
                       shift + 7)
  ELSE [n |-> x, v |-> buf[1] % (flagBitsMask + 1), bytes |-> i]

\* decode without the test of the last byte
decode_IgnoresLastByte(buf) ==
  decodeLoop(buf, 1, (buf[1] % 128) \div (2^flagBits), 7 - flagBits)

\* decode without the & 0x7f on the first byte
decode_KeepsContinuationBit(buf) ==
  IF buf[Len(buf)] >= 128 THEN decodeError
  ELSE decodeLoop(buf, 1, buf[1] \div (2^flagBits), 7 - flagBits)

decode(buf) ==
  IF buf[Len(buf)] >= 128 THEN decodeError
  ELSE decodeLoop(buf, 1, (buf[1] % 128) \div (2^flagBits), 7 - flagBits)

\* next(p): (length, value, bytes read) of the record starting at data[p]
\* (p counts from 1 here, from 0 in the source).
RECURSIVE nextLoop(_, _, _, _)
nextLoop(data, i, x, shift) ==
  IF i < Len(data) /\ data[i] >= 128
  THEN nextLoop(data, i + 1, x + (data[i + 1] % 128) * (2^shift), shift + 7)
  ELSE [x |-> Uint(x), i |-> i]

next(data, p) ==
  LET r == nextLoop(data, p, (data[p] % 128) \div (2^flagBits), 7 - flagBits)
  IN [n |-> r.x, v |-> data[p] % (flagBitsMask + 1), bytes |-> r.i - p + 1]

last(data) ==
  LET ends == {i \in 1..(Len(data) - 1) : data[i] < 128}
  IN IF ends = {} THEN next(data, 1)
     ELSE next(data, (CHOOSE i \in ends : \A j \in ends : j <= i) + 1)

\* the run list (n, v) of data, in order
RECURSIVE runsFrom(_, _)
runsFrom(data, p) ==
  IF p > Len(data) THEN <<>>
  ELSE LET r == next(data, p)
       IN <<[n |-> r.n, v |-> r.v]>> \o runsFrom(data, p + r.bytes)

Runs(data) == runsFrom(data, 1)

RECURSIVE SumN(_)
SumN(runs) == IF runs = <<>> THEN 0 ELSE runs[1].n + SumN(Tail(runs))

\* value of slot i (counted from 0) in the walk All() makes over the runs;
\* StateNotUsed + 1 marks a slot no run covers
RECURSIVE slotIn(_, _)
slotIn(runs, i) ==
  IF runs = <<>> THEN StateNotUsed + 1
  ELSE IF i < runs[1].n THEN runs[1].v
  ELSE slotIn(Tail(runs), i - runs[1].n)

Slot(s, i) == slotIn(Runs(s.data), i)

\* All(): the slice of count zeroes the walk over the records writes into.
\* A record of value 0 only advances the index; a write at an index >= count
\* is an index out of range, a run-time panic of the program.
RECURSIVE allPanics(_, _, _)
allPanics(runs, index, count) ==
  IF runs = <<>> THEN FALSE
  ELSE IF runs[1].v # 0 /\ runs[1].n >= 1 /\ index + runs[1].n > count
  THEN TRUE
  ELSE allPanics(Tail(runs), index + runs[1].n, count)

All(s) ==
  LET runs == Runs(s.data)
      panic == allPanics(runs, 0, s.count)
  IN [panic |-> panic,
      values |-> IF panic THEN <<>>
                 ELSE [i \in 1..s.count |->
                         IF slotIn(runs, i - 1) > flagBitsMask THEN 0
                         ELSE slotIn(runs, i - 1)]]

\* ---------------------------------------------------------------- Sequence
NewSequence(t, f) ==
  [ts |-> t, frequency |-> IF f = 0 THEN 1 ELSE f,
   length |-> MaxSequenceLength, count |-> 0, data |-> <<>>]

\* addSeries adding one to count whatever the length of the series
addSeries_CountsOne(s, count, x0) ==
  LET x == x0 % (flagBitsMask + 1)
      l == last(s.data)
      buf == encode(Uint(l.n + count), x)
      index == Len(s.data) - l.bytes
      newLen == IF Len(buf) > l.bytes THEN index + Len(buf) ELSE Len(s.data)
  IN IF s.count # 0 /\ l.v = x
     THEN [s EXCEPT !.data = [i \in 1..newLen |->
                                 IF i > index /\ i - index <= Len(buf)
                                 THEN buf[i - index] ELSE s.data[i]],
                    !.count = Uint(s.count + 1)]
     ELSE [s EXCEPT !.data = IF count = 1
                             THEN Append(s.data, (2^flagBits) + x)
                             ELSE s.data \o encode(count, x),
                    !.count = Uint(s.count + 1)]

addSeries(s, count, x0) ==
  LET x == x0 % (flagBitsMask + 1)
      l == last(s.data)
      buf == encode(Uint(l.n + count), x)
      index == Len(s.data) - l.bytes
      newLen == IF Len(buf) > l.bytes THEN index + Len(buf) ELSE Len(s.data)
  IN IF s.count # 0 /\ l.v = x
     THEN [s EXCEPT !.data = [i \in 1..newLen |->
                                 IF i > index /\ i - index <= Len(buf)
                                 THEN buf[i - index] ELSE s.data[i]],
                    !.count = Uint(s.count + count)]
     ELSE [s EXCEPT !.data = IF count = 1
                             THEN Append(s.data, (2^flagBits) + x)
                             ELSE s.data \o encode(count, x),
                    !.count = Uint(s.count + count)]

RECURSIVE fromValuesLoop(_, _, _, _, _)
fromValuesLoop(s, values, i, count, x) ==
  IF i > Len(values) THEN addSeries(s, count, x)
  ELSE IF values[i] # x
       THEN fromValuesLoop(addSeries(s, count, x), values, i + 1, 1, values[i])
       ELSE fromValuesLoop(s, values, i + 1, count + 1, x)

\* NewSequenceFromValues starting its first block with a count of 0
NewSequenceFromValues_MiscountsFirst(t, f, values) ==
  IF Len(values) = 0 THEN NewSequence(t, f)
  ELSE fromValuesLoop(NewSequence(t, f), values, 2, 0, values[1])

NewSequenceFromValues(t, f, values) ==
  IF Len(values) = 0 THEN NewSequence(t, f)
  ELSE fromValuesLoop(NewSequence(t, f), values, 2, 1, values[1])

\* Add with the overwrite test off by one (offset < count)
Add_OverwritesLast(s, t, x) ==
  LET offset == Quot(t - s.ts, s.frequency) + 1
      delta == offset - s.count
      filled == IF delta > 1 THEN addSeries(s, Uint(delta) - 1, StateUnknown)
                ELSE s
  IN IF offset < 1 \/ offset > s.length
     THEN [s |-> s, err |-> ErrOutOfBounds]
     ELSE IF offset < s.count
     THEN [s |-> s, err |-> ErrCannotOverwrite]
     ELSE [s |-> addSeries(filled, 1, x), err |-> ErrNil]

\* Add filling the gap with delta unknown slots instead of delta - 1
Add_FillsWholeGap(s, t, x) ==
  LET offset == Quot(t - s.ts, s.frequency) + 1
      delta == offset - s.count
      filled == IF delta > 1 THEN addSeries(s, Uint(delta), StateUnknown)
                ELSE s
  IN IF offset < 1 \/ offset > s.length
     THEN [s |-> s, err |-> ErrOutOfBounds]
     ELSE IF offset <= s.count
     THEN [s |-> s, err |-> ErrCannotOverwrite]
     ELSE [s |-> addSeries(filled, 1, x), err |-> ErrNil]

\* Add without the gap fill
Add_NoGapFill(s, t, x) ==
  LET offset == Quot(t - s.ts, s.frequency) + 1
  IN IF offset < 1 \/ offset > s.length
     THEN [s |-> s, err |-> ErrOutOfBounds]
     ELSE IF offset <= s.count
     THEN [s |-> s, err |-> ErrCannotOverwrite]
     ELSE [s |-> addSeries(s, 1, x), err |-> ErrNil]

\* Add filling the gap before it tests the bounds
Add_FillsBeforeTest(s, t, x) ==
  LET offset == Quot(t - s.ts, s.frequency) + 1
      delta == offset - s.count
      filled == IF delta > 1 THEN addSeries(s, Uint(delta) - 1, StateUnknown)
                ELSE s
  IN IF offset < 1
     THEN [s |-> s, err |-> ErrOutOfBounds]
     ELSE IF offset > s.length
     THEN [s |-> filled, err |-> ErrOutOfBounds]
     ELSE IF offset <= s.count
     THEN [s |-> s, err |-> ErrCannotOverwrite]
     ELSE [s |-> addSeries(filled, 1, x), err |-> ErrNil]

\* Add reporting success, and writing nothing, on a slot already written
Add_AcceptsWrittenSlot(s, t, x) ==
  LET offset == Quot(t - s.ts, s.frequency) + 1
      delta == offset - s.count
      filled == IF delta > 1 THEN addSeries(s, Uint(delta) - 1, StateUnknown)
                ELSE s
  IN IF offset < 1 \/ offset > s.length
     THEN [s |-> s, err |-> ErrOutOfBounds]
     ELSE IF offset <= s.count
     THEN [s |-> s, err |-> ErrNil]
     ELSE [s |-> addSeries(filled, 1, x), err |-> ErrNil]

Add(s, t, x) ==
  LET offset == Quot(t - s.ts, s.frequency) + 1
      delta == offset - s.count
      filled == IF delta > 1 THEN addSeries(s, Uint(delta) - 1, StateUnknown)
                ELSE s
  IN IF offset < 1 \/ offset > s.length
     THEN [s |-> s, err |-> ErrOutOfBounds]
     ELSE IF offset <= s.count
     THEN [s |-> s, err |-> ErrCannotOverwrite]
     ELSE [s |-> addSeries(filled, 1, x), err |-> ErrNil]

RECURSIVE setLengthLoop(_, _, _, _)
setLengthLoop(data, x, p, v0) ==
  IF p > Len(data) THEN data
  ELSE LET r == next(data, p)
           v == Uint(v0 + r.n)
       IN IF v = x THEN SubSeq(data, 1, p + r.bytes - 1)
          ELSE IF v > x
          THEN SubSeq(data, 1, p - 1) \o encode(Uint(r.n - (v - x)), r.v)
          ELSE setLengthLoop(data, x, p + r.bytes, v)

\* SetLength without the right trim
SetLength_NoTrim(s, x) == [s EXCEPT !.length = x]

SetLength(s, x) ==
  IF x >= s.count THEN [s EXCEPT !.length = x]
  ELSE [s EXCEPT !.length = x,
                 !.data = setLengthLoop(s.data, x, 1, 0),
                 !.count = x]

\* TrimLeft's walk (specification 4.C.6): drop the x leftmost slots of a
\* sequence holding more than x slots.
RECURSIVE trimLoop(_, _, _, _)
trimLoop(data, x, p, v0) ==
  IF p > Len(data) THEN <<>>
  ELSE LET r == next(data, p)
           v == Uint(v0 + r.n)
           rest == SubSeq(data, p + r.bytes, Len(data))
       IN IF v = x THEN rest
          ELSE IF v > x THEN encode(Uint(v - x), r.v) \o rest
          ELSE trimLoop(data, x, p + r.bytes, v)

trimSlots(s, x) ==
  [s EXCEPT !.data = trimLoop(s.data, x, 1, 0),
            !.count = s.count - x,
            !.ts = s.ts + x * s.frequency]

TrimLeft(s, t) ==
  LET x == Quot(ceilInt64(t - s.ts, s.frequency), s.frequency)
  IN IF x < 0 THEN [s |-> s, err |-> ErrOutOfBounds]
     ELSE IF x = 0 THEN [s |-> s, err |-> ErrNil]
     ELSE IF x >= s.count
     THEN [s |-> [s EXCEPT !.data = <<>>, !.count = 0,
                           !.ts = s.ts + x * s.frequency],
           err |-> ErrNil]
     ELSE [s |-> trimSlots(s, x), err |-> ErrNil]

\* Roll (specification 4.C.4): the offset is computed as in Add.
Roll(s, t, x) ==
  LET offset == Quot(t - s.ts, s.frequency) + 1
      over == offset - s.length
      trimmed == IF over > 0 THEN trimSlots(s, over) ELSE s
      gap == (offset - (IF over > 0 THEN over ELSE 0)) - trimmed.count
      filled == IF gap > 1 THEN addSeries(trimmed, Uint(gap) - 1, StateUnknown)
                ELSE trimmed
  IN IF offset < 1 THEN [s |-> s, err |-> ErrOutOfBounds]
     ELSE IF offset <= s.count THEN [s |-> s, err |-> ErrCannotOverwrite]
     ELSE IF over > 0 /\ over >= s.count
     THEN [s |-> [s EXCEPT !.data = encode(Uint(s.length - 1), StateUnknown)
                                      \o encode(1, x),
                           !.count = s.length,
                           !.ts = s.ts + over * s.frequency],
           err |-> ErrNil]
     ELSE IF over > 0 /\ offset - s.count = 1 /\ Len(s.data) = 1
             /\ s.data[1] % (flagBitsMask + 1) = x
     THEN [s |-> [s EXCEPT !.ts = s.ts + s.frequency], err |-> ErrNil]
     ELSE [s |-> addSeries(filled, 1, x), err |-> ErrNil]

\* ------------------------------------------------------------ serialization
\* the k low bytes of x, least significant first (byte(x), byte(x >> 8), ...)
LittleEndian(x, k) == [i \in 1..k |-> (x \div (256^(i - 1))) % 256]

RECURSIVE FromLittleEndian(_)
FromLittleEndian(b) ==
  IF b = <<>> THEN 0 ELSE b[1] + 256 * FromLittleEndian(Tail(b))

Bytes(s) ==
  LittleEndian(s.ts, sizeTimestamp)
    \o LittleEndian(s.frequency, sizeFrequency)
    \o (IF s.length # MaxSequenceLength
        THEN LittleEndian(s.length, sizeLength)
        ELSE LittleEndian(0, sizeLength))
    \o (IF s.count # 0
        THEN LittleEndian(s.count, sizeCounter)
        ELSE LittleEndian(0, sizeCounter))
    \o s.data

ErrCannotDecode == "cannot decode the sequence"

NewSequenceFromBytes(b) ==
  LET field(index, size) ==
        FromLittleEndian(SubSeq(b, index + 1, index + size))
      l == field(indexLength, sizeLength)
  IN IF Len(b) < indexData THEN [s |-> <<>>, err |-> ErrCannotDecode]
     ELSE [s |-> [ts |-> field(indexTimestamp, sizeTimestamp),
                  frequency |-> field(indexFrequency, sizeFrequency),
                  length |-> IF l = 0 THEN MaxSequenceLength ELSE l,
                  count |-> field(indexCounter, sizeCounter),
                  data |-> SubSeq(b, indexData + 1, Len(b))],
           err |-> ErrNil]

\* -------------------------------------------------------------------- query
ErrInvalidArguments == "invalid arguments"

\* interval(): the closed time interval of the sequence
interval(s) ==
  [start |-> s.ts, end |-> s.ts + (s.length - 1) * s.frequency]

\* intersect returning y whenever x starts first and the two overlap
intersect_ReturnsOther(x, y) ==
  IF x.start <= y.start
  THEN IF x.end >= y.start THEN [r |-> y, ok |-> TRUE]
       ELSE [r |-> [start |-> 0, end |-> 0], ok |-> FALSE]
  ELSE IF x.start <= y.end
  THEN IF x.end >= y.end
       THEN [r |-> [start |-> x.start, end |-> y.end], ok |-> TRUE]
       ELSE [r |-> x, ok |-> TRUE]
  ELSE [r |-> [start |-> 0, end |-> 0], ok |-> FALSE]

\* x.intersect(y)
intersect(x, y) ==
  IF x.start <= y.start
  THEN IF x.end >= y.end THEN [r |-> y, ok |-> TRUE]
       ELSE IF x.end >= y.start
       THEN [r |-> [start |-> y.start, end |-> x.end], ok |-> TRUE]
       ELSE [r |-> [start |-> 0, end |-> 0], ok |-> FALSE]
  ELSE IF x.start <= y.end
  THEN IF x.end >= y.end
       THEN [r |-> [start |-> x.start, end |-> y.end], ok |-> TRUE]
       ELSE [r |-> x, ok |-> TRUE]
  ELSE [r |-> [start |-> 0, end |-> 0], ok |-> FALSE]

\* k copies of v (none when k <= 0)
Repeat(v, k) == [i \in 1..k |-> v]

\* the walk of Values over the records: out is data[0:dstIndex]
RECURSIVE valuesLoop(_, _, _, _, _, _)
valuesLoop(data, p, x, y, srcIndex, out) ==
  IF p > Len(data) THEN out
  ELSE LET r == next(data, p)
           offset == IF Len(out) = 0 THEN x - srcIndex ELSE 0
       IN IF srcIndex + r.n < x
          THEN valuesLoop(data, p + r.bytes, x, y, srcIndex + r.n, out)
          ELSE IF y < srcIndex + r.n
          THEN out \o Repeat(r.v, y - srcIndex - offset + 1)
          ELSE valuesLoop(data, p + r.bytes, x, y, srcIndex + r.n,
                          out \o Repeat(r.v, r.n - offset))

\* Values(start, end): the values, the time of the first one, the error;
\* panic is a make with a negative size or a write past the slice
queryValues(s, start, end) ==
  LET i == intersect(interval(s), [start |-> start, end |-> end])
      f == s.frequency
      x == Quot(ceilInt64(i.r.start - s.ts, f), f)
      y == Quot(i.r.end - s.ts, f)
      size == y - x + 1
      out == valuesLoop(s.data, 1, x, y, 0, <<>>)
  IN IF start > end
     THEN [values |-> <<>>, timestamp |-> 0, err |-> ErrInvalidArguments,
           panic |-> FALSE]
     ELSE IF ~i.ok
     THEN [values |-> <<>>, timestamp |-> 0, err |-> ErrOutOfBounds,
           panic |-> FALSE]
     ELSE IF size < 0 \/ Len(out) > size
     THEN [values |-> <<>>, timestamp |-> 0, err |-> ErrNil, panic |-> TRUE]
     ELSE [values |-> out \o Repeat(StateUnknown, size - Len(out)),
           timestamp |-> s.ts + x * f, err |-> ErrNil, panic |-> FALSE]

ErrInvalidTimeFilter == "invalid time filter"
ErrInvalidGroupingInterval == "invalid grouping interval"

\* the inner loop of Query over one run of value v: c holds x, shift and
\* aggregation, acc the Sum and Count slices and steps the (dst, n) of every
\* pass of the loop; panic is an index out of range (or a step that does not
\* advance)
RECURSIVE queryRun(_, _, _, _, _, _)
queryRun(acc, c, v, src, target, first) ==
  IF src >= target \/ acc.panic THEN acc
  ELSE LET dst == Quot(c.shift + src - c.x, c.aggregation)
           n0 == IF first
                 THEN c.aggregation - Rem(c.shift + src - c.x, c.aggregation)
                 ELSE c.aggregation
           n == IF src + n0 > target THEN target - src ELSE n0
       IN IF dst < 0 \/ dst >= Len(acc.count) \/ n < 1
          THEN [acc EXCEPT !.panic = TRUE,
                           !.steps = Append(@, [dst |-> dst, n |-> n])]
          ELSE queryRun([sum |-> IF v = 1
                                 THEN [acc.sum EXCEPT ![dst + 1] = @ + n]
                                 ELSE acc.sum,
                         count |-> [acc.count EXCEPT ![dst + 1] = @ + n],
                         steps |-> Append(acc.steps, [dst |-> dst, n |-> n]),
                         panic |-> FALSE],
                        c, v, src + n, target, FALSE)

\* the loop of Query over the records
RECURSIVE queryLoop(_, _, _, _, _)
queryLoop(acc, c, data, p, src) ==
  IF p > Len(data) \/ acc.panic THEN acc
  ELSE LET r == next(data, p)
           nxt == src + r.n
           from == IF c.x > src THEN c.x ELSE src
           target == IF c.y < nxt THEN c.y + 1 ELSE nxt
           done == queryRun(acc, c, r.v, from, target, TRUE)
       IN IF c.x >= nxt \/ r.v = StateUnknown
          THEN queryLoop(acc, c, data, p + r.bytes, nxt)
          ELSE IF nxt > c.y THEN done
          ELSE queryLoop(done, c, data, p + r.bytes,
                         IF from < target THEN target ELSE from)

\* Query returning the sequence's own ts as timestamp when the query starts
\* before the sequence
Query_RealignsTimestamp(s, start, end, d) ==
  LET f == s.frequency
      aggregation == Quot(d, f)
      numberOfValues == Quot(Quot(end - start, f), aggregation) + 1
      zeroes == [i \in 1..numberOfValues |-> 0]
      i == intersect(interval(s), [start |-> start, end |-> end])
      c == [x |-> Quot(ceilInt64(i.r.start - s.ts, f), f),
            y |-> Quot(i.r.end - s.ts, f),
            shift |-> 0,
            aggregation |-> aggregation]
      walk == queryLoop([sum |-> zeroes, count |-> zeroes, steps |-> <<>>,
                         panic |-> FALSE],
                        c, s.data, 1, 0)
      empty == [timestamp |-> 0, frequency |-> 0, sum |-> <<>>,
                count |-> <<>>, panic |-> FALSE, err |-> ErrNil]
  IN IF start > end THEN [empty EXCEPT !.err = ErrInvalidTimeFilter]
     ELSE IF aggregation < 1
     THEN [empty EXCEPT !.err = ErrInvalidGroupingInterval]
     ELSE IF ~i.ok
     THEN [timestamp |-> start, frequency |-> f * aggregation,
           sum |-> zeroes, count |-> zeroes, panic |-> FALSE, err |-> ErrNil]
     ELSE [timestamp |-> IF start < s.ts THEN s.ts ELSE start,
           frequency |-> f * aggregation,
           sum |-> walk.sum, count |-> walk.count, panic |-> walk.panic,
           err |-> ErrNil]

\* Query without the test of the grouping interval
Query_AcceptsAnyInterval(s, start, end, d) ==
  LET f == s.frequency
      aggregation == IF Quot(d, f) < 1 THEN 1 ELSE Quot(d, f)
      numberOfValues == Quot(Quot(end - start, f), aggregation) + 1
      zeroes == [i \in 1..numberOfValues |-> 0]
      empty == [timestamp |-> 0, frequency |-> 0, sum |-> <<>>,
                count |-> <<>>, panic |-> FALSE, err |-> ErrNil]
  IN IF start > end THEN [empty EXCEPT !.err = ErrInvalidTimeFilter]
     ELSE [timestamp |-> start, frequency |-> f * aggregation,
           sum |-> zeroes, count |-> zeroes, panic |-> FALSE, err |-> ErrNil]

\* Query with Sum and Count one group short
Query_OneGroupShort(s, start, end, d) ==
  LET f == s.frequency
      aggregation == Quot(d, f)
      numberOfValues == Quot(Quot(end - start, f), aggregation)
      zeroes == [i \in 1..numberOfValues |-> 0]
      i == intersect(interval(s), [start |-> start, end |-> end])
      c == [x |-> Quot(ceilInt64(i.r.start - s.ts, f), f),
            y |-> Quot(i.r.end - s.ts, f),
            shift |-> IF start < s.ts THEN Quot(s.ts - start, f) ELSE 0,
            aggregation |-> aggregation]
      walk == queryLoop([sum |-> zeroes, count |-> zeroes, steps |-> <<>>,
                         panic |-> FALSE],
                        c, s.data, 1, 0)
      empty == [timestamp |-> 0, frequency |-> 0, sum |-> <<>>,
                count |-> <<>>, steps |-> <<>>, panic |-> FALSE,
                err |-> ErrNil]
  IN IF start > end THEN [empty EXCEPT !.err = ErrInvalidTimeFilter]
     ELSE IF aggregation < 1
     THEN [empty EXCEPT !.err = ErrInvalidGroupingInterval]
     ELSE IF ~i.ok
     THEN [timestamp |-> start, frequency |-> f * aggregation,
           sum |-> zeroes, count |-> zeroes, steps |-> <<>>, panic |-> FALSE,
           err |-> ErrNil]
     ELSE [timestamp |-> start, frequency |-> f * aggregation,
           sum |-> walk.sum, count |-> walk.count, steps |-> walk.steps,
           panic |-> walk.panic, err |-> ErrNil]

\* Query(start, end, d), d in whole seconds
Query(s, start, end, d) ==
  LET f == s.frequency
      aggregation == Quot(d, f)
      numberOfValues == Quot(Quot(end - start, f), aggregation) + 1
      zeroes == [i \in 1..numberOfValues |-> 0]
      i == intersect(interval(s), [start |-> start, end |-> end])
      c == [x |-> Quot(ceilInt64(i.r.start - s.ts, f), f),
            y |-> Quot(i.r.end - s.ts, f),
            shift |-> IF start < s.ts THEN Quot(s.ts - start, f) ELSE 0,
            aggregation |-> aggregation]
      walk == queryLoop([sum |-> zeroes, count |-> zeroes, steps |-> <<>>,
                         panic |-> FALSE],
                        c, s.data, 1, 0)
      empty == [timestamp |-> 0, frequency |-> 0, sum |-> <<>>,
                count |-> <<>>, steps |-> <<>>, panic |-> FALSE,
               err |-> ErrNil]
  IN IF start > end THEN [empty EXCEPT !.err = ErrInvalidTimeFilter]
     ELSE IF aggregation < 1
     THEN [empty EXCEPT !.err = ErrInvalidGroupingInterval]
     ELSE IF ~i.ok
     THEN [timestamp |-> start, frequency |-> f * aggregation,
           sum |-> zeroes, count |-> zeroes, steps |-> <<>>, panic |-> FALSE,
           err |-> ErrNil]
     ELSE [timestamp |-> start, frequency |-> f * aggregation,
           sum |-> walk.sum, count |-> walk.count, steps |-> walk.steps,
           panic |-> walk.panic,
           err |-> ErrNil]

\* -------------------------------------------------------------- the Store
\* make(map[string]*Sequence): the map without a key
emptyMap == [k \in {} |-> 0]

\* store.go calls the constructor New and the decoder FromBytes; they are
\* modelled by NewSequence and NewSequenceFromBytes.
StatementAdd == 0
StatementRoll == 1
statementUnknown == 2

ErrUnknownStatement == "unknown statement type"
ErrKeyDoesNotExist == "key does not exist"

\* addresses: an allocation takes the lowest address not in use; the
\* addresses nothing points to any more are given back
Reachable(mm, rr) == ({mm[k] : k \in DOMAIN mm} \cup rr) \ {0}

Collect(h, mm, rr) ==
  [a \in (DOMAIN h) \cap Reachable(mm, rr) |-> h[a]]

Alloc(h, v) ==
  LET a == CHOOSE i \in 1..(Cardinality(DOMAIN h) + 1) :
             /\ i \notin DOMAIN h
             /\ \A j \in 1..(i - 1) : j \in DOMAIN h
  IN [a |-> a,
      heap |-> [i \in (DOMAIN h) \cup {a} |-> IF i = a THEN v ELSE h[i]]]

Put(mm, key, a) ==
  [k \in (DOMAIN mm) \cup {key} |-> IF k = key THEN a ELSE mm[k]]

\* clone: a new Sequence with the same fields and its own copy of data
clone(s) ==
  [ts |-> s.ts, frequency |-> s.frequency, length |-> s.length,
   count |-> s.count, data |-> [i \in 1..Len(s.data) |-> s.data[i]]]

\* Store.New(t, f, key); st is the pair of the map and the heap
StoreNew(st, t, f, key) ==
  LET n == Alloc(st.heap, NewSequence(t, f))
  IN [m |-> Put(st.m, key, n.a), heap |-> n.heap]

\* Store.Add storing the caller's own Sequence
StoreAdd_KeepsPointer(st, key, x) ==
  [m |-> Put(st.m, key, x), heap |-> st.heap]

\* Store.Add(key, x), x the address of the caller's Sequence
StoreAdd(st, key, x) ==
  LET n == Alloc(st.heap, clone(st.heap[x]))
  IN [m |-> Put(st.m, key, n.a), heap |-> n.heap]

\* Store.Delete(key)
StoreDelete(st, key) ==
  [m |-> [k \in (DOMAIN st.m) \ {key} |-> st.m[k]], heap |-> st.heap]

\* Store.Get(key): the address handed to the caller, and found or not
StoreGet(st, key) ==
  IF key \notin DOMAIN st.m THEN [st |-> st, x |-> 0, ok |-> FALSE]
  ELSE LET n == Alloc(st.heap, clone(st.heap[st.m[key]]))
       IN [st |-> [m |-> st.m, heap |-> n.heap], x |-> n.a, ok |-> TRUE]

\* Store.Query(key, start, end, d)
StoreQuery(st, key, start, end, d) ==
  IF key \notin DOMAIN st.m
  THEN [timestamp |-> 0, frequency |-> 0, sum |-> <<>>, count |-> <<>>,
        panic |-> FALSE, err |-> ErrKeyDoesNotExist]
  ELSE Query(st.heap[st.m[key]], start, end, d)

\* Store.Keys(), as a set: the order is that of a map iteration
StoreKeysOf(st) == DOMAIN st.m

\* executeUnsafe creating the missing Sequence before it looks at the type
executeUnsafe_CreatesFirst(st, statement) ==
  LET ok == statement.Key \in DOMAIN st.m
      n == Alloc(st.heap,
                 IF statement.CreateWithLength > 0
                 THEN SetLength(NewSequence(statement.CreateWithTimestamp,
                                            statement.CreateWithFrequency),
                                statement.CreateWithLength)
                 ELSE NewSequence(statement.CreateWithTimestamp,
                                  statement.CreateWithFrequency))
      st1 == IF ok THEN st
             ELSE [m |-> Put(st.m, statement.Key, n.a), heap |-> n.heap]
      x == st1.m[statement.Key]
      r == IF statement.Type = StatementAdd
           THEN Add(st1.heap[x], statement.Timestamp, statement.Value)
           ELSE Roll(st1.heap[x], statement.Timestamp, statement.Value)
  IN IF ~ok /\ ~statement.CreateIfNotExists
     THEN [st |-> st, err |-> ErrKeyDoesNotExist]
     ELSE IF statement.Type >= statementUnknown
     THEN [st |-> st1, err |-> ErrUnknownStatement]
     ELSE [st |-> [m |-> st1.m, heap |-> [st1.heap EXCEPT ![x] = r.s]],
           err |-> r.err]

\* executeUnsafe calling SetLength whatever CreateWithLength is
executeUnsafe_AlwaysSetsLength(st, statement) ==
  LET ok == statement.Key \in DOMAIN st.m
      n == Alloc(st.heap,
                 SetLength(NewSequence(statement.CreateWithTimestamp,
                                       statement.CreateWithFrequency),
                           statement.CreateWithLength))
      st1 == IF ok THEN st
             ELSE [m |-> Put(st.m, statement.Key, n.a), heap |-> n.heap]
      x == st1.m[statement.Key]
      r == IF statement.Type = StatementAdd
           THEN Add(st1.heap[x], statement.Timestamp, statement.Value)
           ELSE Roll(st1.heap[x], statement.Timestamp, statement.Value)
  IN IF statement.Type >= statementUnknown
     THEN [st |-> st, err |-> ErrUnknownStatement]
     ELSE IF ~ok /\ ~statement.CreateIfNotExists
     THEN [st |-> st, err |-> ErrKeyDoesNotExist]
     ELSE [st |-> [m |-> st1.m, heap |-> [st1.heap EXCEPT ![x] = r.s]],
           err |-> r.err]

\* executeUnsafe keeping a Sequence it created only when the Add or Roll
\* succeeded
executeUnsafe_InsertsOnSuccess(st, statement) ==
  LET ok == statement.Key \in DOMAIN st.m
      n == Alloc(st.heap,
                 IF statement.CreateWithLength > 0
                 THEN SetLength(NewSequence(statement.CreateWithTimestamp,
                                            statement.CreateWithFrequency),
                                statement.CreateWithLength)
                 ELSE NewSequence(statement.CreateWithTimestamp,
                                  statement.CreateWithFrequency))
      st1 == IF ok THEN st
             ELSE [m |-> Put(st.m, statement.Key, n.a), heap |-> n.heap]
      x == st1.m[statement.Key]
      r == IF statement.Type = StatementAdd
           THEN Add(st1.heap[x], statement.Timestamp, statement.Value)
           ELSE Roll(st1.heap[x], statement.Timestamp, statement.Value)
  IN IF statement.Type >= statementUnknown
     THEN [st |-> st, err |-> ErrUnknownStatement]
     ELSE IF ~ok /\ ~statement.CreateIfNotExists
     THEN [st |-> st, err |-> ErrKeyDoesNotExist]
     ELSE IF ~ok /\ r.err # ErrNil
     THEN [st |-> st, err |-> r.err]
     ELSE [st |-> [m |-> st1.m, heap |-> [st1.heap EXCEPT ![x] = r.s]],
           err |-> r.err]

\* executeUnsafe(statement)
executeUnsafe(st, statement) ==
  LET ok == statement.Key \in DOMAIN st.m
      n == Alloc(st.heap,
                 IF statement.CreateWithLength > 0
                 THEN SetLength(NewSequence(statement.CreateWithTimestamp,
                                            statement.CreateWithFrequency),
                                statement.CreateWithLength)
                 ELSE NewSequence(statement.CreateWithTimestamp,
                                  statement.CreateWithFrequency))
      st1 == IF ok THEN st
             ELSE [m |-> Put(st.m, statement.Key, n.a), heap |-> n.heap]
      x == st1.m[statement.Key]
      r == IF statement.Type = StatementAdd
           THEN Add(st1.heap[x], statement.Timestamp, statement.Value)
           ELSE Roll(st1.heap[x], statement.Timestamp, statement.Value)
  IN IF statement.Type >= statementUnknown
     THEN [st |-> st, err |-> ErrUnknownStatement]
     ELSE IF ~ok /\ ~statement.CreateIfNotExists
     THEN [st |-> st, err |-> ErrKeyDoesNotExist]
     ELSE [st |-> [m |-> st1.m, heap |-> [st1.heap EXCEPT ![x] = r.s]],
           err |-> r.err]

\* Store.Execute(statement)
Execute(st, statement) == executeUnsafe(st, statement)

\* Batch giving up at the first statement that fails
RECURSIVE batchLoop_StopsAtFailure(_, _, _, _)
batchLoop_StopsAtFailure(st, statements, i, errs) ==
  IF i > Len(statements) THEN [st |-> st, errors |-> errs]
  ELSE LET e == executeUnsafe(st, statements[i])
       IN IF e.err # ErrNil
          THEN [st |-> e.st, errors |-> Put(errs, i, e.err)]
          ELSE batchLoop_StopsAtFailure(e.st, statements, i + 1, errs)

\* Store.Batch(statements): the store it leaves and the batchResult, its
\* errors keyed by the index of the statement (from 1 here, from 0 in Go)
RECURSIVE batchLoop(_, _, _, _)
batchLoop(st, statements, i, errs) ==
  IF i > Len(statements) THEN [st |-> st, errors |-> errs]
  ELSE LET e == executeUnsafe(st, statements[i])
       IN batchLoop(e.st, statements, i + 1,
                    IF e.err # ErrNil THEN Put(errs, i, e.err) ELSE errs)

Batch(st, statements) ==
  LET b == batchLoop(st, statements, 1, emptyMap)
  IN [st |-> b.st, errors |-> b.errors, n |-> Len(statements)]

\* batchResult.ErrorVars() and batchResult.HasErrors()
ErrorVars(b) ==
  [i \in 1..b.n |-> IF i \in DOMAIN b.errors THEN b.errors[i] ELSE ErrNil]

HasErrors(b) == Cardinality(DOMAIN b.errors) > 0

\* binary.PutUvarint and binary.PutVarint (encoding/binary): the zig-zag of
\* x in groups of 7 bits, the low group first
RECURSIVE PutUvarint(_)
PutUvarint(x) ==
  IF x < 128 THEN <<x>> ELSE <<(x % 128) + 128>> \o PutUvarint(x \div 128)

PutVarint(x) == PutUvarint(IF x >= 0 THEN 2 * x ELSE -(2 * x) - 1)

\* binary.Uvarint and binary.Varint: the value and the number of bytes
\* read, 0 bytes when buf ends before the value does
RECURSIVE uvarintLoop(_, _, _, _)
uvarintLoop(buf, i, x, mult) ==
  IF i > Len(buf) THEN [v |-> 0, n |-> 0]
  ELSE IF buf[i] < 128 THEN [v |-> x + buf[i] * mult, n |-> i]
  ELSE uvarintLoop(buf, i + 1, x + (buf[i] % 128) * mult, mult * 128)

Uvarint(buf) == uvarintLoop(buf, 1, 0, 1)

Varint(buf) ==
  LET u == Uvarint(buf)
  IN [v |-> IF u.v % 2 = 0 THEN u.v \div 2 ELSE -(u.v \div 2) - 1,
      n |-> u.n]

\* Store.Dump(): order is the order in which the range over s.m visits the
\* keys, a sequence without repetition of all of them
RECURSIVE dumpLoop(_, _, _)
dumpLoop(st, order, i) ==
  IF i > Len(order) THEN <<>>
  ELSE LET k == order[i]
           b == Bytes(st.heap[st.m[k]])
       IN PutVarint(Len(k)) \o k \o PutVarint(Len(b)) \o b
            \o dumpLoop(st, order, i + 1)

Dump(st, order) == dumpLoop(st, order, 1)

\* the orders a range over the map can take
Orders(st) ==
  {o \in [1..Cardinality(DOMAIN st.m) -> DOMAIN st.m] :
     \A i, j \in DOMAIN o : i # j => o[i] # o[j]}

\* data[i:j] of Go with i and j counted from 0: a run-time panic when the
\* bounds are not 0 <= i <= j <= len(data)
SliceOk(data, i, j) == 0 <= i /\ i <= j /\ j <= Len(data)
Slice(data, i, j) == SubSeq(data, i + 1, j)

\* Store.Load(data): the map it leaves, its error, whether it panicked, and
\* whether it reached s.mu.Unlock()
RECURSIVE loadLoop(_, _, _)
loadLoop(st, data, i) ==
  IF i >= Len(data)
  THEN [st |-> st, err |-> ErrNil, panic |-> FALSE, unlocked |-> TRUE]
  ELSE
    LET k == Varint(Slice(data, i, Len(data)))
        i1 == i + k.n
        i2 == i1 + k.v
        key == Slice(data, i1, i2)
        d == Varint(Slice(data, i2, Len(data)))
        i3 == i2 + d.n
        i4 == i3 + d.v
        x == NewSequenceFromBytes(Slice(data, i3, i4))
        n == Alloc(st.heap, x.s)
    IN IF ~SliceOk(data, i1, i2) \/ ~SliceOk(data, i3, i4)
       THEN [st |-> st, err |-> ErrNil, panic |-> TRUE, unlocked |-> FALSE]
       ELSE IF x.err # ErrNil
       THEN [st |-> [m |-> Put(st.m, key, 0), heap |-> st.heap],
             err |-> x.err, panic |-> FALSE, unlocked |-> FALSE]
       ELSE loadLoop([m |-> Put(st.m, key, n.a), heap |-> n.heap],
                     data, i4)

\* Load with its error return going through s.mu.Unlock()
Load_UnlocksOnError(st, data) ==
  LET r == loadLoop([m |-> emptyMap, heap |-> st.heap], data, 0)
  IN [r EXCEPT !.unlocked = ~r.panic]

Load(st, data) == loadLoop([m |-> emptyMap, heap |-> st.heap], data, 0)

\* Store.Shrink(): the map is rebuilt with the same keys and pointers; the
\* Sequences give up their spare capacity, which no field shows
StoreShrink(st) == [m |-> [k \in DOMAIN st.m |-> st.m[k]], heap |-> st.heap]

\* ------------------------------------------------------------------- state
VARIABLES ts, frequency, length, count, data    \* the fields of the Sequence

\* The Store and its callers: m is Store.m, a map from key to the address of
\* a Sequence (0 is the nil pointer); heap holds the Sequence at each
\* address in use; refs are the addresses the callers hold; mu is Store.mu;
\* pc is where each goroutine stands: the Store method it called (op),
\* whether it waits for the lock or has it (at), and for Batch the
\* statements (arg) and how many of them are done (i).
VARIABLES m, heap, refs, mu, pc

seqVars == <<ts, frequency, length, count, data>>
storeVars == <<m, heap, refs, mu, pc>>
vars == <<ts, frequency, length, count, data, m, heap, refs, mu, pc>>

Goroutines == {"g1", "g2", "g3"}
NoGoroutine == "none"

\* NewStore(): an empty map and an unlocked mutex; nothing is calling
NewStore ==
  /\ m = emptyMap
  /\ heap = emptyMap
  /\ refs = {}
  /\ mu = [w |-> NoGoroutine, r |-> {}]
  /\ pc = [g \in Goroutines |->
             [op |-> "idle", at |-> "idle", i |-> 0, arg |-> <<>>]]

\* the Sequence as the methods take it
Seq0 == [ts |-> ts, frequency |-> frequency, length |-> length,
         count |-> count, data |-> data]

Values == 0..flagBitsMask
Times == (Epoch - 1)..(Epoch + MaxTime)
Lengths == 0..MaxLen
Samples == UNION {[1..n -> Values] : n \in 0..MaxVals}
Durations == 0..MaxDur

Install(s) ==
  /\ ts' = s.ts
  /\ frequency' = s.frequency
  /\ length' = s.length
  /\ count' = s.count
  /\ data' = s.data
  /\ UNCHANGED storeVars

Init ==
  \E f \in 0..MaxFreq, values \in Samples :
    LET s == NewSequenceFromValues(Epoch, f, values)
    IN /\ ts = s.ts
       /\ frequency = s.frequency
       /\ length = s.length
       /\ count = s.count
       /\ data = s.data
       /\ NewStore

AddCall == \E t \in Times, x \in Values : Install(Add(Seq0, t, x).s)

RollCall == \E t \in Times, x \in Values : Install(Roll(Seq0, t, x).s)

SetLengthCall == \E x \in Lengths : Install(SetLength(Seq0, x))

TrimLeftCall == \E t \in Times : Install(TrimLeft(Seq0, t).s)

Next == AddCall \/ RollCall \/ SetLengthCall \/ TrimLeftCall

Spec == Init /\ [][Next]_vars

\* the methods whose source is available, alone
NextCode == AddCall \/ SetLengthCall

SpecCode == Init /\ [][NextCode]_vars

\* --------------------------------------- a sequence that is only appended to
\* a Sequence made by NewSequenceFromValues and SetLength, then handed to
\* Add and Roll alone
InitAppend ==
  \E f \in 0..MaxFreq, values \in Samples,
     x \in Lengths \cup {MaxSequenceLength} :
    LET s == SetLength(NewSequenceFromValues(Epoch, f, values), x)
    IN /\ ts = s.ts
       /\ frequency = s.frequency
       /\ length = s.length
       /\ count = s.count
       /\ data = s.data
       /\ NewStore

NextAppend == AddCall \/ RollCall

SpecAppend == InitAppend /\ [][NextAppend]_vars

\* ------------------------------------------- the sequence of TestSequenceRoll
testSequenceFrequency == 60
S5Length == 140
S5Count == 135

\* the records of 5 active, 5 inactive and 125 active samples
S5Data == <<21, 20, 245, 3>>

\* the 1-based offsets rolled at: the three of scenario S5 of the
\* specification and those of tests 1, 2, 3 and 6 of TestSequenceRoll
S5Offsets == {S5Length, S5Length + 6, S5Length + 3994} \cup
             {S5Count + 1, S5Length + 7, S5Length + 10, S5Length + 4000}

InitS5 ==
  /\ ts = Epoch
  /\ frequency = testSequenceFrequency
  /\ length = S5Length
  /\ count = S5Count
  /\ data = S5Data
  /\ NewStore

RollS5Call ==
  \E k \in S5Offsets, x \in Values :
    Install(Roll(Seq0, Epoch + (k - 1) * testSequenceFrequency, x).s)

SpecS5 == InitS5 /\ [][RollS5Call]_vars

\* ------------------------------------------------ sequences of a single run
\* run lengths handed to encode: every small one and those around each power
\* of two, so that records of 1 to 5 bytes occur
CodecRuns ==
  (1..MaxRun) \cup {MaxSequenceLength}
    \cup {2^k + d : k \in 1..(UintBits - 1), d \in {-1, 0, 1}}

\* NewSequenceFromValues on n equal samples makes the one call
\* addSeries(n, v)
InitCodec ==
  \E n \in CodecRuns, v \in Values :
    LET s == addSeries(NewSequence(Epoch, 1), n, v)
    IN /\ ts = s.ts
       /\ frequency = s.frequency
       /\ length = s.length
       /\ count = s.count
       /\ data = s.data
       /\ NewStore

SpecCodec == InitCodec /\ [][SetLengthCall]_vars

\* --------------------------------------------- sequences built from samples
testValues == <<1, 1, 1, 1, 1, 0, 0, 0, 0, 0, 1, 1, 1, 1, 1, 2, 2, 2, 2, 0>>

\* the sample lists handed to NewSequenceFromValues
ValueLists == UNION {[1..n -> Values] : n \in 0..MaxList} \cup {testValues}

InitValues ==
  \E f \in {0, testSequenceFrequency}, values \in ValueLists :
    LET s == NewSequenceFromValues(Epoch, f, values)
    IN /\ ts = s.ts
       /\ frequency = s.frequency
       /\ length = s.length
       /\ count = s.count
       /\ data = s.data
       /\ NewStore

SpecValues == InitValues /\ [][SetLengthCall]_vars

\* ------------------------------------------------- the Store, one caller
\* the keys of TestStoreDumpLoad, "k1" and "k11", as bytes
StoreKeys == {<<107, 49>>, <<107, 49, 49>>}
StoreTimes == {Epoch - 1, Epoch}

Statements ==
  [Key : StoreKeys, Timestamp : StoreTimes, Value : {StateActive},
   Type : {StatementAdd, StatementRoll, statementUnknown},
   CreateIfNotExists : BOOLEAN, CreateWithTimestamp : {Epoch},
   CreateWithFrequency : {1}, CreateWithLength : {0, MaxLen}]

\* the statements handed to Batch, in lists of up to two
BatchStatements ==
  {s \in Statements : /\ s.Key = <<107, 49>> /\ s.Timestamp = Epoch
                      /\ s.CreateWithLength = 0}

BatchLists == {<<>>} \cup {<<s>> : s \in BatchStatements}
                \cup {<<s, t>> : s \in BatchStatements, t \in BatchStatements}

\* a buffer whose Sequence FromBytes refuses: the key "k1" followed by a
\* Sequence of no byte
Malformed == {<<4, 107, 49, 0>>}

St == [m |-> m, heap |-> heap]

\* what a call that has taken Store.mu finds: nobody else holds it
Unlocked == mu.w = NoGoroutine /\ mu.r = {}

\* Addresses are only ever compared for equality, so each state is kept
\* under one numbering of them: the Sequences of the map first, by the
\* length of their key (the keys here differ in length), then those only
\* callers hold, in the order of their addresses.
Renumber(st, rr) ==
  LET used == Reachable(st.m, rr)
      longest == IF DOMAIN st.m = {} THEN 0
                 ELSE CHOOSE n \in {Len(k) : k \in DOMAIN st.m} :
                        \A k \in DOMAIN st.m : Len(k) <= n
      rank == [a \in used |->
                 LET held == {k \in DOMAIN st.m : st.m[k] = a}
                 IN IF held = {} THEN longest + a
                    ELSE CHOOSE n \in {Len(k) : k \in held} :
                           \A k \in held : n <= Len(k)]
      to == [a \in used \cup {0} |->
               IF a = 0 THEN 0
               ELSE Cardinality({b \in used : rank[b] < rank[a]}) + 1]
      from == [n \in 1..Cardinality(used) |->
                 CHOOSE a \in used : to[a] = n]
  IN [m |-> [k \in DOMAIN st.m |-> to[st.m[k]]],
      heap |-> [n \in 1..Cardinality(used) |-> st.heap[from[n]]],
      refs |-> {to[a] : a \in rr}]

InstallStore(st, rr) ==
  \E left \in {st} :
    \E c \in {Renumber(left, rr)} :
      /\ m' = c.m
      /\ heap' = c.heap
      /\ refs' = c.refs
      /\ UNCHANGED seqVars

InitStore ==
  /\ NewStore
  /\ ts = Epoch /\ frequency = 1 /\ length = MaxSequenceLength
  /\ count = 0 /\ data = <<>>

StoreNewCall ==
  /\ Unlocked
  /\ \E key \in StoreKeys : InstallStore(StoreNew(St, Epoch, 1, key), refs)
  /\ UNCHANGED <<mu, pc>>

StoreAddCall ==
  /\ Unlocked
  /\ \E key \in StoreKeys, x \in refs : InstallStore(StoreAdd(St, key, x), refs)
  /\ UNCHANGED <<mu, pc>>

StoreDeleteCall ==
  /\ Unlocked
  /\ \E key \in StoreKeys : InstallStore(StoreDelete(St, key), refs)
  /\ UNCHANGED <<mu, pc>>

StoreGetCall ==
  /\ Unlocked
  /\ refs = {}
  /\ \E key \in StoreKeys :
       LET g == StoreGet(St, key)
       IN /\ g.ok
          /\ InstallStore(g.st, refs \cup {g.x})
  /\ UNCHANGED <<mu, pc>>

ExecuteCall ==
  /\ Unlocked
  /\ \E statement \in Statements :
       InstallStore(Execute(St, statement).st, refs)
  /\ UNCHANGED <<mu, pc>>

BatchCall ==
  /\ Unlocked
  /\ \E statements \in BatchLists :
       InstallStore(Batch(St, statements).st, refs)
  /\ UNCHANGED <<mu, pc>>

\* Load keeps Store.mu when it returns before s.mu.Unlock()
LoadCall ==
  /\ Unlocked
  /\ \E buf \in {Dump(St, o) : o \in Orders(St)} \cup Malformed :
       LET l == Load(St, buf)
       IN /\ InstallStore(l.st, refs)
          /\ mu' = IF l.unlocked THEN mu ELSE [mu EXCEPT !.w = "g1"]
  /\ UNCHANGED pc

\* the caller has one variable for a Sequence: it makes one of its own or
\* gets one from the Store when the variable is free, changes the one it
\* holds, or lets go of it
CallerNew ==
  /\ refs = {}
  /\ LET n == Alloc(heap, NewSequence(Epoch, 1))
     IN InstallStore([m |-> m, heap |-> n.heap], refs \cup {n.a})
  /\ UNCHANGED <<mu, pc>>

CallerAdd ==
  /\ \E x \in refs, t \in StoreTimes :
       InstallStore([m |-> m,
                     heap |-> [heap EXCEPT
                                 ![x] = Add(heap[x], t, StateActive).s]],
                    refs)
  /\ UNCHANGED <<mu, pc>>

CallerSetLength ==
  /\ \E x \in refs :
       InstallStore([m |-> m,
                     heap |-> [heap EXCEPT ![x] = SetLength(heap[x], 0)]],
                    refs)
  /\ UNCHANGED <<mu, pc>>

CallerDrop ==
  /\ \E x \in refs : InstallStore(St, refs \ {x})
  /\ UNCHANGED <<mu, pc>>

NextStore ==
  \/ StoreNewCall \/ StoreAddCall \/ StoreDeleteCall \/ StoreGetCall
  \/ ExecuteCall \/ BatchCall \/ LoadCall
  \/ CallerNew \/ CallerAdd \/ CallerSetLength \/ CallerDrop

SpecStore == InitStore /\ [][NextStore]_vars

\* ------------------------------------------- the Store, several goroutines
\* Each method is taken in steps: the call, which leaves the goroutine
\* before s.mu.Lock() or s.mu.RLock(); the acquisition, which blocks until
\* the mutex allows it; and the body up to the return, Batch one statement
\* at a time.
Ops == {"New", "Add", "Delete", "Get", "Query", "Execute", "Batch", "Keys",
        "Dump", "Load", "Shrink"}

\* Batch taking the read lock
LockKind_BatchReadLocks(op) ==
  IF op \in {"Get", "Query", "Keys", "Dump", "Batch"} THEN "RLock" ELSE "Lock"

\* the lock each method takes
LockKind(op) ==
  IF op \in {"Get", "Query", "Keys", "Dump"} THEN "RLock" ELSE "Lock"

\* sync.RWMutex: Lock waits for the writer and the readers to leave, RLock
\* for the writer
CanLock == mu.w = NoGoroutine /\ mu.r = {}
CanRLock == mu.w = NoGoroutine

\* s.mu.Unlock() or s.mu.RUnlock() by goroutine g
Release(g) ==
  IF LockKind(pc[g].op) = "Lock" THEN [mu EXCEPT !.w = NoGoroutine]
  ELSE [mu EXCEPT !.r = @ \ {g}]

Idle == [op |-> "idle", at |-> "idle", i |-> 0, arg |-> <<>>]

LockKey == <<107, 49>>

LockStatements ==
  {s \in BatchStatements : s.CreateIfNotExists}

\* the batches: an Add then a Roll, and a refused statement then an Add
LockBatches ==
  {b \in {<<s, t>> : s \in LockStatements, t \in LockStatements} :
     \/ b[1].Type = StatementAdd /\ b[2].Type = StatementRoll
     \/ b[1].Type = statementUnknown /\ b[2].Type = StatementAdd}

In(g, op) == pc[g].at = "in" /\ pc[g].op = op

\* the return of goroutine g with the store left as st
Return(g, st) ==
  /\ InstallStore(st, refs)
  /\ mu' = Release(g)
  /\ pc' = [pc EXCEPT ![g] = Idle]

Call(g) ==
  /\ pc[g].at = "idle"
  /\ \E op \in Ops, statements \in LockBatches :
       pc' = [pc EXCEPT ![g] = [op |-> op, at |-> "lock", i |-> 0,
                                arg |-> IF op = "Batch" THEN statements
                                        ELSE <<>>]]
  /\ UNCHANGED <<seqVars, m, heap, refs, mu>>

Lock(g) ==
  /\ pc[g].at = "lock" /\ LockKind(pc[g].op) = "Lock"
  /\ CanLock
  /\ mu' = [mu EXCEPT !.w = g]
  /\ pc' = [pc EXCEPT ![g].at = "in"]
  /\ UNCHANGED <<seqVars, m, heap, refs>>

RLock(g) ==
  /\ pc[g].at = "lock" /\ LockKind(pc[g].op) = "RLock"
  /\ CanRLock
  /\ mu' = [mu EXCEPT !.r = @ \cup {g}]
  /\ pc' = [pc EXCEPT ![g].at = "in"]
  /\ UNCHANGED <<seqVars, m, heap, refs>>

NewReturn(g) == In(g, "New") /\ Return(g, StoreNew(St, Epoch, 1, LockKey))

\* Add of a Sequence the caller has just made
AddReturn(g) ==
  /\ In(g, "Add")
  /\ LET x == Alloc(heap, NewSequence(Epoch, 1))
     IN Return(g, StoreAdd([m |-> m, heap |-> x.heap], LockKey, x.a))

DeleteReturn(g) == In(g, "Delete") /\ Return(g, StoreDelete(St, LockKey))

\* the readers: the caller lets go of what Get hands out
GetReturn(g) ==
  /\ In(g, "Get")
  /\ Return(g, [m |-> m, heap |-> StoreGet(St, LockKey).st.heap])

QueryReturn(g) == In(g, "Query") /\ Return(g, St)

KeysReturn(g) == In(g, "Keys") /\ Return(g, St)

DumpReturn(g) == In(g, "Dump") /\ Return(g, St)

ExecuteReturn(g) ==
  /\ In(g, "Execute")
  /\ \E statement \in LockStatements :
       Return(g, Execute(St, statement).st)

\* one statement of the batch
BatchStep(g) ==
  /\ In(g, "Batch")
  /\ pc[g].i < Len(pc[g].arg)
  /\ InstallStore(executeUnsafe(St, pc[g].arg[pc[g].i + 1]).st, refs)
  /\ pc' = [pc EXCEPT ![g].i = @ + 1]
  /\ UNCHANGED mu

BatchReturn(g) ==
  /\ In(g, "Batch")
  /\ pc[g].i = Len(pc[g].arg)
  /\ Return(g, St)

\* Load returns with the lock when it returns before s.mu.Unlock()
LoadReturn(g) ==
  /\ In(g, "Load")
  /\ \E buf \in {Dump(St, o) : o \in Orders(St)} \cup Malformed :
       LET l == Load(St, buf)
       IN /\ InstallStore(l.st, refs)
          /\ mu' = IF l.unlocked THEN Release(g) ELSE mu
  /\ pc' = [pc EXCEPT ![g] = Idle]

ShrinkReturn(g) == In(g, "Shrink") /\ Return(g, StoreShrink(St))

NextLock ==
  \E g \in Goroutines :
    \/ Call(g) \/ Lock(g) \/ RLock(g)
    \/ NewReturn(g) \/ AddReturn(g) \/ DeleteReturn(g) \/ GetReturn(g)
    \/ QueryReturn(g) \/ KeysReturn(g) \/ DumpReturn(g)
    \/ ExecuteReturn(g) \/ BatchStep(g) \/ BatchReturn(g)
    \/ LoadReturn(g) \/ ShrinkReturn(g)

SpecLock == InitStore /\ [][NextLock]_vars

\* ------------------------------------------------------------------ claims
\* Claims about the outcome of a call are stated at the state the call is
\* made in, for every argument the actions draw: the calls of the model are
\* exactly Add(Seq0, t, x), Roll(Seq0, t, x), ... for those arguments.

\* the 1-based offset as Add computes it (Go's division truncates)
Offset(s, t) == Quot(t - s.ts, s.frequency) + 1
\* the 1-based offset floor((t - ts)/frequency) + 1 of the specification
FloorOffset(s, t) == ((t - s.ts) \div s.frequency) + 1

Refused(err) == [s |-> Seq0, err |-> err]

\* C1: in every reachable state the run lengths n of the records of data
\* sum to count.
C1_SumEqualsCount == SumN(Runs(data)) = count

\* C2: in every reachable state count <= length.
C2_CountLeLength == count <= length

\* C2 witness: a sequence whose length was set below the default is full.
C2_Witness == 0 < count /\ count = length /\ length < MaxSequenceLength

\* C3: after every public mutation no two adjacent records of data carry
\* the same value.
C3_RunsMaximal ==
  LET runs == Runs(data)
  IN \A i \in 1..(Len(runs) - 1) : runs[i].v # runs[i + 1].v

\* C4: after every public mutation every record of data has n >= 1.
C4_RunsNonEmpty ==
  LET runs == Runs(data)
  IN \A i \in 1..Len(runs) : runs[i].n >= 1

\* C5: Add fails with out of bounds exactly when floor((t - ts)/frequency) + 1
\* is < 1 or > length.
C5_AddOutOfBounds ==
  \A t \in Times, x \in Values :
    Add(Seq0, t, x).err = ErrOutOfBounds
      <=> (FloorOffset(Seq0, t) < 1 \/ FloorOffset(Seq0, t) > length)

\* C6: Add and Roll fail with cannot overwrite, and change nothing, whenever
\* the offset of t is a populated slot (1 <= offset <= count).
C6_CannotOverwrite ==
  \A t \in Times, x \in Values :
    (1 <= FloorOffset(Seq0, t) /\ FloorOffset(Seq0, t) <= count)
    => /\ Add(Seq0, t, x) = Refused(ErrCannotOverwrite)
       /\ Roll(Seq0, t, x) = Refused(ErrCannotOverwrite)

\* C6 witness: Add and Roll refuse to write another value over a slot that
\* holds unknown, lies beyond the slots a constructor can have populated and
\* has a populated slot after it.
C6_Witness ==
  \E t \in Times, x \in Values \ {StateUnknown} :
    /\ MaxVals < FloorOffset(Seq0, t) /\ FloorOffset(Seq0, t) < count
    /\ Slot(Seq0, FloorOffset(Seq0, t) - 1) = StateUnknown
    /\ Add(Seq0, t, x).err = ErrCannotOverwrite
    /\ Roll(Seq0, t, x).err = ErrCannotOverwrite

\* C7: a successful Add leaves count = offset, v in slot offset-1, unknown in
\* the slots count..offset-2, the earlier slots and ts, frequency, length as
\* they were, with offset = floor((t - ts)/frequency) + 1.
C7_AddPost ==
  \A t \in Times, x \in Values :
    LET r == Add(Seq0, t, x)
        offset == FloorOffset(Seq0, t)
    IN r.err = ErrNil =>
         /\ r.s.count = offset
         /\ Slot(r.s, offset - 1) = x
         /\ \A i \in count..(offset - 2) : Slot(r.s, i) = StateUnknown
         /\ \A i \in 0..(count - 1) : Slot(r.s, i) = Slot(Seq0, i)
         /\ r.s.ts = ts /\ r.s.frequency = frequency /\ r.s.length = length

\* C8 as stated: a successful Add increases count by exactly one.
C8_AddPopulatesOneSlot ==
  \A t \in Times, x \in Values :
    Add(Seq0, t, x).err = ErrNil => Add(Seq0, t, x).s.count = count + 1

\* C8 amended: a successful Add raises count to the offset it computed, an
\* increase of offset - count >= 1 (the skipped slots are populated too).
C8_AddRaisesCountToOffset ==
  \A t \in Times, x \in Values :
    LET r == Add(Seq0, t, x)
    IN r.err = ErrNil =>
         (r.s.count = Offset(Seq0, t) /\ r.s.count >= count + 1)

\* C8 witness: an Add on a populated sequence succeeds and skips a slot.
C8_Witness ==
  \E t \in Times, x \in Values :
    /\ count > 0
    /\ Add(Seq0, t, x).err = ErrNil
    /\ Add(Seq0, t, x).s.count >= count + 2

C10_RollPost ==
  \A t \in Times, x \in Values :
    LET r == Roll(Seq0, t, x)
        offset == Offset(Seq0, t)
        over == offset - length
    IN (offset > count /\ offset >= 1) =>
         /\ r.err = ErrNil
         /\ offset > length =>
              /\ r.s.length = length
              /\ r.s.count = length
              /\ r.s.ts = ts + over * frequency
              /\ r.s.count >= 1 => Slot(r.s, r.s.count - 1) = x
              /\ \A i \in 0..(r.s.count - 2) :
                   Slot(r.s, i) = IF i + over < count
                                  THEN Slot(Seq0, i + over)
                                  ELSE StateUnknown

\* C11: a Roll with offset > length and offset - length >= count leaves data
\* = [encode(length - 1, unknown), encode(1, v)] (length - 1 in the unsigned
\* type of length), count = length and ts advanced by (offset - length) *
\* frequency.
C11_RollFullReset ==
  \A t \in Times, x \in Values :
    LET r == Roll(Seq0, t, x)
        over == Offset(Seq0, t) - length
    IN (over > 0 /\ over >= count) =>
         /\ r.err = ErrNil
         /\ r.s.data = encode(Uint(length - 1), StateUnknown) \o encode(1, x)
         /\ Runs(r.s.data) = <<[n |-> Uint(length - 1), v |-> StateUnknown],
                               [n |-> 1, v |-> x]>>
         /\ r.s.count = length
         /\ r.s.ts = ts + over * frequency

\* C11 witness: a populated sequence of length >= 2 is rolled past all of
\* its slots.
C11_Witness ==
  \E t \in Times, x \in Values :
    /\ count >= 1 /\ length >= 2
    /\ Offset(Seq0, t) - length >= count
    /\ Roll(Seq0, t, x).err = ErrNil
    /\ Roll(Seq0, t, x).s.count = length
    /\ Roll(Seq0, t, x).s.ts > ts

\* C12 as stated: on the sequence of length 140 and count 135, rolling at
\* offset 140 keeps ts, makes count 136 and leaves length unchanged.
C12_RollAt140Counts136 ==
  (length = S5Length /\ count = S5Count) =>
    \A x \in Values :
      LET r == Roll(Seq0, ts + (S5Length - 1) * frequency, x)
      IN /\ r.err = ErrNil
         /\ r.s.ts = ts
         /\ r.s.count = S5Count + 1
         /\ r.s.length = length

\* C12 amended: on that sequence rolling at offset 136, the first unpopulated
\* slot, keeps ts and length and makes count 136; rolling at offset 140 keeps
\* ts and length and makes count 140, the skipped slots reading unknown.
C12_RollInsideWindow ==
  (length = S5Length /\ count = S5Count) =>
    \A x \in Values :
      LET r == Roll(Seq0, ts + S5Count * frequency, x)
          q == Roll(Seq0, ts + (S5Length - 1) * frequency, x)
      IN /\ r.err = ErrNil /\ q.err = ErrNil
         /\ r.s.ts = ts /\ q.s.ts = ts
         /\ r.s.length = length /\ q.s.length = length
         /\ r.s.count = S5Count + 1
         /\ q.s.count = S5Length
         /\ \A i \in S5Count..(S5Length - 2) : Slot(q.s, i) = StateUnknown
         /\ Slot(r.s, S5Count) = x /\ Slot(q.s, S5Length - 1) = x

\* C12 witness: the roll at offset 136 has been made on that sequence.
C12_Witness ==
  /\ length = S5Length
  /\ count = S5Count + 1
  /\ ts = Epoch
  /\ \A i \in 0..(S5Count - 1) : Slot(Seq0, i) = slotIn(Runs(S5Data), i)

Min(a, b) == IF a <= b THEN a ELSE b
Max(a, b) == IF a >= b THEN a ELSE b
\* ceil(a / b) for a >= 0 and b >= 1
CeilDiv(a, b) == (a + b - 1) \div b

\* C13: for t >= ts, TrimLeft(t) with x = ceil((t - ts)/frequency) succeeds,
\* sets ts' = ts + x*frequency and count' = max(count - x, 0), keeps length,
\* leaves All() equal to the former All() without its first min(x, count)
\* samples, and no remaining slot has a timestamp below t.
C13_TrimLeftPost ==
  \A t \in Times :
    t >= ts =>
      LET x == CeilDiv(t - ts, frequency)
          r == TrimLeft(Seq0, t)
          before == All(Seq0)
          after == All(r.s)
      IN /\ r.err = ErrNil
         /\ r.s.ts = ts + x * frequency
         /\ r.s.count = Max(count - x, 0)
         /\ r.s.length = length
         /\ ~before.panic /\ ~after.panic
         /\ after.values = SubSeq(before.values, Min(x, count) + 1, count)
         /\ \A i \in 0..(r.s.count - 1) : r.s.ts + i * frequency >= t

\* C14: SetLength(x) sets length to x; when x >= count, count and data are
\* unchanged; when x < count, count becomes x and All() is the first x
\* samples of the former All().
C14_SetLengthPost ==
  \A x \in Lengths :
    LET r == SetLength(Seq0, x)
        before == All(Seq0)
        after == All(r)
    IN /\ r.length = x
       /\ r.ts = ts /\ r.frequency = frequency
       /\ x >= count => (r.count = count /\ r.data = data)
       /\ x < count =>
            /\ r.count = x
            /\ ~before.panic /\ ~after.panic
            /\ after.values = SubSeq(before.values, 1, x)

\* C15: for every n >= 1 whose record fits (every run length of the modelled
\* width) and every v in 0..3, decode(encode(n, v)) = (n, v,
\* len(encode(n, v))).
C15_DecodeEncode ==
  \A n \in CodecRuns, v \in Values :
    decode(encode(n, v)) = [n |-> n, v |-> v, bytes |-> Len(encode(n, v))]

\* C15 witness: a sequence holds one run in a record of 5 bytes, which
\* decode reads back.
C15_Witness ==
  /\ Len(data) = 5
  /\ count \in CodecRuns
  /\ \E v \in Values \ {StateInactive} :
       /\ data = encode(count, v)
       /\ decode(data) = [n |-> count, v |-> v, bytes |-> 5]

\* C16: for every reachable sequence s, FromBytes(s.Bytes()) succeeds and
\* yields a sequence with the same ts, frequency, length, count and data.
C16_BytesRoundTrip ==
  LET r == NewSequenceFromBytes(Bytes(Seq0))
  IN r.err = ErrNil /\ r.s = Seq0

\* the maximal blocks of equal consecutive samples, as runs
RECURSIVE Blocks(_)
Blocks(values) ==
  IF values = <<>> THEN <<>>
  ELSE LET rest == Blocks(Tail(values))
       IN IF rest # <<>> /\ rest[1].v = values[1]
          THEN <<[n |-> rest[1].n + 1, v |-> values[1]]>> \o Tail(rest)
          ELSE <<[n |-> 1, v |-> values[1]]>> \o rest

\* C17: for every list vals of samples in 0..3, NewWithValues(t, f, vals) has
\* count = len(vals), All() equal to vals, and data holding exactly one
\* record per maximal block of equal consecutive samples.
C17_FromValues ==
  \A values \in ValueLists :
    LET s == NewSequenceFromValues(ts, frequency, values)
    IN /\ s.count = Len(values)
       /\ ~All(s).panic
       /\ All(s).values = values
       /\ Runs(s.data) = Blocks(values)

\* C17 witness: the sequence built from the 20 samples of the tests holds
\* five records, count = 20, and reads back as the samples.
C17_Witness ==
  /\ Seq0 = NewSequenceFromValues(Epoch, testSequenceFrequency, testValues)
  /\ count = Len(testValues)
  /\ Len(Runs(data)) = 5
  /\ data = <<21, 20, 21, 18, 4>>
  /\ All(Seq0).values = testValues

\* the closed interval [start, end] meets [ts, ts + (length - 1)*frequency]
Overlaps(start, end) ==
  Max(start, ts) <= Min(end, ts + (length - 1) * frequency)

\* C18: for start <= end overlapping the interval of the sequence,
\* QueryValues(start, end) returns timestamp ts + x*frequency and y - x + 1
\* values, x = ceil((max(start, ts) - ts)/frequency), y = floor((min(end,
\* ts + (length-1)*frequency) - ts)/frequency); values[i] is All()[x + i]
\* when x + i < count and unknown otherwise.
C18_QueryValues ==
  \A start \in Times, end \in Times :
    (start <= end /\ Overlaps(start, end)) =>
      LET q == queryValues(Seq0, start, end)
          x == CeilDiv(Max(start, ts) - ts, frequency)
          y == (Min(end, ts + (length - 1) * frequency) - ts) \div frequency
          all == All(Seq0)
      IN /\ q.err = ErrNil /\ ~q.panic
         /\ q.timestamp = ts + x * frequency
         /\ Len(q.values) = y - x + 1
         /\ \A i \in 0..(y - x) :
              IF x + i < count
              THEN ~all.panic /\ q.values[i + 1] = all.values[x + i + 1]
              ELSE q.values[i + 1] = StateUnknown

\* C19: QueryValues(start, end) fails with invalid arguments when start > end,
\* with out of bounds when [start, end] does not intersect [ts, ts +
\* (length-1)*frequency], and returns without error in every other case.
C19_QueryValuesErrors ==
  \A start \in Times, end \in Times :
    LET q == queryValues(Seq0, start, end)
    IN IF start > end THEN q.err = ErrInvalidArguments
       ELSE IF ~Overlaps(start, end) THEN q.err = ErrOutOfBounds
       ELSE q.err = ErrNil /\ ~q.panic

\* the populated slots with a timestamp in [start, end] that fall in group g
\* of a grouped query of aggregation k
SlotsInGroup(start, end, k, g) ==
  {i \in 0..(count - 1) :
     /\ start <= ts + i * frequency /\ ts + i * frequency <= end
     /\ (ts + i * frequency - start) \div (frequency * k) = g}

\* C20: for every successful grouped Query(start, end, d) with aggregation
\* k = floor(d/frequency), count[g] is the number of populated slots in
\* [start, end] and in group g whose value is not unknown, and sum[g] the
\* number of those whose value is active.
C20_QueryGroups ==
  \A start \in Times, end \in Times, d \in Durations :
    LET q == Query(Seq0, start, end, d)
        k == d \div frequency
        all == All(Seq0)
    IN q.err = ErrNil =>
         /\ ~q.panic
         /\ \A g \in 0..(Len(q.count) - 1) :
              LET slots == SlotsInGroup(start, end, k, g)
              IN /\ slots # {} => ~all.panic
                 /\ q.count[g + 1] =
                      Cardinality({i \in slots :
                                     all.values[i + 1] # StateUnknown})
                 /\ q.sum[g + 1] =
                      Cardinality({i \in slots :
                                     all.values[i + 1] = StateActive})
         /\ \A i \in 0..(count - 1) :
              (start <= ts + i * frequency /\ ts + i * frequency <= end)
              => (ts + i * frequency - start) \div (frequency * k)
                   < Len(q.count)

\* C21: every successful grouped Query(start, end, d) returns timestamp =
\* start, frequency = frequency*k with k = floor(d/frequency), and sum and
\* count of the same length floor((end - start)/frequency/k) + 1; when
\* [start, end] does not intersect the interval of the sequence the call
\* still succeeds and both vectors are all zero.
C21_QueryShape ==
  \A start \in Times, end \in Times, d \in Durations :
    LET q == Query(Seq0, start, end, d)
        k == d \div frequency
        n == (((end - start) \div frequency) \div k) + 1
    IN /\ q.err = ErrNil =>
            /\ q.timestamp = start
            /\ q.frequency = frequency * k
            /\ Len(q.sum) = n /\ Len(q.count) = n
       /\ (start <= end /\ k >= 1 /\ ~Overlaps(start, end)) =>
            /\ q.err = ErrNil
            /\ q.sum = [i \in 1..n |-> 0]
            /\ q.count = [i \in 1..n |-> 0]

\* C21 witness: a query that starts before the sequence, off its grid, and
\* reaches populated slots succeeds with timestamp = start.
C21_Witness ==
  \E start \in Times, end \in Times, d \in Durations :
    /\ start < ts /\ count >= 2 /\ frequency >= 2
    /\ (ts - start) % frequency # 0
    /\ Query(Seq0, start, end, d).err = ErrNil
    /\ Query(Seq0, start, end, d).timestamp = start
    /\ \E g \in 1..Len(Query(Seq0, start, end, d).count) :
         Query(Seq0, start, end, d).count[g] > 0

\* C22: grouped Query(start, end, d) fails with invalid time filter when
\* start > end and with invalid grouping interval when floor(d/frequency) < 1
\* (the time filter is tested first), in both cases with an empty result;
\* it succeeds for every other input.
C22_QueryErrors ==
  \A start \in Times, end \in Times, d \in Durations :
    LET q == Query(Seq0, start, end, d)
        isEmpty == /\ q.timestamp = 0 /\ q.frequency = 0
                   /\ q.sum = <<>> /\ q.count = <<>>
    IN IF start > end THEN q.err = ErrInvalidTimeFilter /\ isEmpty
       ELSE IF d \div frequency < 1
       THEN q.err = ErrInvalidGroupingInterval /\ isEmpty
       ELSE q.err = ErrNil /\ ~q.panic

\* C22 witness: on a populated sequence one query is refused for its time
\* filter, one for its grouping interval, and one succeeds.
C22_Witness ==
  /\ count >= 1 /\ frequency >= 2
  /\ \E start \in Times, end \in Times, d \in Durations :
       /\ start > end
       /\ Query(Seq0, start, end, d).err = ErrInvalidTimeFilter
  /\ \E start \in Times, end \in Times, d \in Durations :
       /\ start <= end /\ d >= 1 /\ d < frequency
       /\ Query(Seq0, start, end, d).err = ErrInvalidGroupingInterval
  /\ \E start \in Times, end \in Times, d \in Durations :
       /\ start <= end /\ d >= frequency
       /\ Query(Seq0, start, end, d).err = ErrNil

\* the addresses the map of the Store holds
Stored == {m[k] : k \in DOMAIN m} \ {0}

\* C23: the Store never shares a Sequence with a caller. No address a
\* caller holds is in the map; Add(key, x) stores a new Sequence equal to
\* x and leaves x as it was; two Get(key) in a row hand out two new
\* Sequences, each equal to the stored one, at addresses that differ from
\* each other and from the stored one. A change made through one address
\* therefore never shows through another.
C23_StoreNeverShares ==
  /\ refs \cap Stored = {}
  /\ Unlocked =>
       /\ \A key \in StoreKeys, x \in refs :
            LET a == StoreAdd(St, key, x)
            IN /\ a.m[key] # x
               /\ a.m[key] \notin DOMAIN heap
               /\ a.heap[a.m[key]] = heap[x]
               /\ \A o \in DOMAIN heap : a.heap[o] = heap[o]
       /\ \A key \in DOMAIN m :
            LET g1 == StoreGet(St, key)
                g2 == StoreGet(g1.st, key)
            IN /\ g1.ok /\ g2.ok
               /\ g1.x \notin DOMAIN heap
               /\ g2.x \notin (DOMAIN heap) \cup {g1.x}
               /\ g2.st.heap[g1.x] = heap[m[key]]
               /\ g2.st.heap[g2.x] = heap[m[key]]
               /\ g2.st.m = m
               /\ \A o \in DOMAIN heap : g2.st.heap[o] = heap[o]

\* C23 witness: the caller holds a Sequence and the Store one under some
\* key, at two addresses, and the two have come to differ.
C23_Witness ==
  /\ Unlocked
  /\ \E x \in refs, key \in DOMAIN m :
       /\ m[key] # x
       /\ heap[x].count # heap[m[key]].count

\* C24: Execute returns an error and leaves the map and every stored
\* Sequence unchanged when the type of the statement is neither Add nor
\* Roll, CreateIfNotExists set or not, and when the key is absent and
\* CreateIfNotExists is false.
C24_ExecuteRefuses ==
  Unlocked =>
    \A statement \in Statements :
      LET e == Execute(St, statement)
      IN /\ statement.Type \notin {StatementAdd, StatementRoll} =>
              /\ e.err = ErrUnknownStatement
              /\ e.st.m = m /\ e.st.heap = heap
         /\ (/\ statement.Type \in {StatementAdd, StatementRoll}
             /\ statement.Key \notin DOMAIN m
             /\ ~statement.CreateIfNotExists) =>
              /\ e.err = ErrKeyDoesNotExist
              /\ e.st.m = m /\ e.st.heap = heap

\* C24 witness: the Store holds one key and lacks another, so that a
\* statement of unknown type with CreateIfNotExists on the missing key and
\* an Add without CreateIfNotExists on the missing key are both refused.
C24_Witness ==
  /\ Unlocked
  /\ \E key \in StoreKeys, other \in StoreKeys :
       /\ key \in DOMAIN m /\ other \notin DOMAIN m
       /\ \E s \in Statements, t \in Statements :
            /\ s.Key = other /\ s.Type = statementUnknown
            /\ s.CreateIfNotExists
            /\ Execute(St, s).err = ErrUnknownStatement
            /\ t.Key = other /\ t.Type = StatementAdd
            /\ ~t.CreateIfNotExists
            /\ Execute(St, t).err = ErrKeyDoesNotExist

\* the Add or Roll of a statement on the Sequence s
Dispatch(s, statement) ==
  IF statement.Type = StatementAdd
  THEN Add(s, statement.Timestamp, statement.Value)
  ELSE Roll(s, statement.Timestamp, statement.Value)

\* the statement with other values in its Create fields
Recreate(statement, c) ==
  [statement EXCEPT !.CreateIfNotExists = c.CreateIfNotExists,
                    !.CreateWithTimestamp = c.CreateWithTimestamp,
                    !.CreateWithFrequency = c.CreateWithFrequency,
                    !.CreateWithLength = c.CreateWithLength]

\* C25: for an Add or Roll statement on an absent key with
\* CreateIfNotExists, Execute does what New(CreateWithTimestamp,
\* CreateWithFrequency), then SetLength(CreateWithLength) only when
\* CreateWithLength > 0, then the Add or Roll on that Sequence do: the key
\* holds the outcome, the error is that of the Add or Roll, the other keys
\* are untouched. On a present key it does the Add or Roll on the stored
\* Sequence, whatever the Create fields are.
C25_ExecuteCreates ==
  Unlocked =>
    \A statement \in Statements :
      statement.Type \in {StatementAdd, StatementRoll} =>
        LET e == Execute(St, statement)
            key == statement.Key
            new == NewSequence(statement.CreateWithTimestamp,
                               statement.CreateWithFrequency)
            sized == IF statement.CreateWithLength > 0
                     THEN SetLength(new, statement.CreateWithLength)
                     ELSE new
            others == \A k \in DOMAIN m :
                        k # key => /\ k \in DOMAIN e.st.m
                                   /\ e.st.heap[e.st.m[k]] = heap[m[k]]
        IN /\ (key \notin DOMAIN m /\ statement.CreateIfNotExists) =>
                /\ DOMAIN e.st.m = (DOMAIN m) \cup {key}
                /\ e.st.heap[e.st.m[key]] = Dispatch(sized, statement).s
                /\ e.err = Dispatch(sized, statement).err
                /\ others
           /\ key \in DOMAIN m =>
                /\ DOMAIN e.st.m = DOMAIN m
                /\ e.st.heap[e.st.m[key]] =
                     Dispatch(heap[m[key]], statement).s
                /\ e.err = Dispatch(heap[m[key]], statement).err
                /\ others
                /\ \A c \in Statements :
                     Execute(St, Recreate(statement, c)) = e

\* C25 witness: one key is present with a sample and one is absent, so
\* that Execute creates with and without SetLength and adds to a stored
\* Sequence.
C25_Witness ==
  /\ Unlocked
  /\ \E key \in StoreKeys, other \in StoreKeys :
       /\ key \in DOMAIN m /\ other \notin DOMAIN m
       /\ heap[m[key]].count >= 1
       /\ \E s \in Statements, t \in Statements :
            /\ s.Key = other /\ t.Key = other
            /\ s.Type = StatementAdd /\ t.Type = StatementRoll
            /\ s.CreateIfNotExists /\ t.CreateIfNotExists
            /\ s.CreateWithLength = 0 /\ t.CreateWithLength > 0
            /\ Execute(St, s).err = ErrNil
            /\ Execute(St, t).err = ErrNil
            /\ Execute(St, s).st.heap[Execute(St, s).st.m[other]].length
                 = MaxSequenceLength
            /\ Execute(St, t).st.heap[Execute(St, t).st.m[other]].length
                 = t.CreateWithLength

\* Execute on each statement of a list in turn: the store left and the
\* error of each
RECURSIVE ExecuteEach(_, _, _, _)
ExecuteEach(st, statements, i, errs) ==
  IF i > Len(statements) THEN [st |-> st, errs |-> errs]
  ELSE LET e == Execute(st, statements[i])
       IN ExecuteEach(e.st, statements, i + 1, Append(errs, e.err))

\* C26: Batch(statements) leaves the Store as Execute on each statement in
\* input order does and goes on after a failure; ErrorVars() has one entry
\* per statement, entry i the error of statement i when it failed and nil
\* when it succeeded; HasErrors() holds exactly when some entry is not nil.
C26_BatchIsExecuteInOrder ==
  Unlocked =>
    \A statements \in BatchLists :
      LET b == Batch(St, statements)
          each == ExecuteEach(St, statements, 1, <<>>)
      IN /\ b.st = each.st
         /\ Len(ErrorVars(b)) = Len(statements)
         /\ ErrorVars(b) = each.errs
         /\ HasErrors(b) <=> \E i \in 1..Len(statements) :
                               ErrorVars(b)[i] # ErrNil

\* C26 witness: a batch of two statements whose first fails and whose
\* second succeeds and changes the Store.
C26_Witness ==
  /\ Unlocked
  /\ \E statements \in BatchLists :
       /\ Len(statements) = 2
       /\ ErrorVars(Batch(St, statements))[1] # ErrNil
       /\ ErrorVars(Batch(St, statements))[2] = ErrNil
       /\ Batch(St, statements).st.m # m

\* C29: D.Load(S.Dump()) succeeds and leaves in D exactly the keys of S,
\* each with a Sequence equal to the one of S, whatever order the dump was
\* written in and whatever keys D held before.
C29_DumpLoadRoundTrip ==
  Unlocked =>
    \A o \in Orders(St), key \in StoreKeys :
      LET D == StoreNew(St, Epoch, 1, key)
          l == Load(D, Dump(St, o))
      IN /\ l.err = ErrNil /\ ~l.panic /\ l.unlocked
         /\ DOMAIN l.st.m = DOMAIN m
         /\ \A k \in DOMAIN m : l.st.heap[l.st.m[k]] = heap[m[k]]

\* C29 witness: the Store holds two keys with different Sequences, one of
\* them with samples, and its dump loads without an error.
C29_Witness ==
  /\ Unlocked
  /\ DOMAIN m = StoreKeys
  /\ \E j \in DOMAIN m, k \in DOMAIN m :
       heap[m[j]].count >= 1 /\ heap[m[k]] # heap[m[j]]
  /\ \A o \in Orders(St) : Load(St, Dump(St, o)).err = ErrNil

\* the methods the claim calls writers and readers
Writers == {"New", "Add", "Delete", "Execute", "Batch", "Load", "Shrink"}
Readers == {"Get", "Query", "Keys", "Dump"}

\* goroutine g is inside the Store: past the acquisition of the lock and
\* not yet returned
Inside(g) == pc[g].at = "in"

\* C27: under any interleaving, while a writer (New, Add, Delete, Execute,
\* Batch, Load, Shrink) is inside the Store no other goroutine is inside
\* it, and while a reader (Get, Query, Keys, Dump) is inside it no Batch
\* is, so that a reader sees the Store before or after all the statements
\* of a Batch; readers are not kept from being inside together.
C27_WritersAlone ==
  /\ \A g \in Goroutines :
       (Inside(g) /\ pc[g].op \in Writers) =>
         \A h \in Goroutines \ {g} : ~Inside(h)
  /\ \A g \in Goroutines :
       (Inside(g) /\ pc[g].op \in Readers) =>
         \A h \in Goroutines : ~(Inside(h) /\ pc[h].op = "Batch")

\* C27 witness: a Batch has done its first statement and not its second,
\* while one goroutine waits to read and another to write.
C27_Witness ==
  \E g \in Goroutines, h \in Goroutines, k \in Goroutines :
    /\ Inside(g) /\ pc[g].op = "Batch"
    /\ pc[g].i = 1 /\ Len(pc[g].arg) = 2
    /\ pc[h].at = "lock" /\ pc[h].op \in Readers
    /\ pc[k].at = "lock" /\ pc[k].op \in Writers

\* C27, its last part: a state with two readers inside the Store at once
\* and a writer waiting.
C27_ReadersTogether ==
  \E g \in Goroutines, h \in Goroutines, k \in Goroutines :
    /\ g # h
    /\ Inside(g) /\ pc[g].op \in Readers
    /\ Inside(h) /\ pc[h].op \in Readers
    /\ pc[k].at = "lock" /\ pc[k].op \in Writers

\* C28: every Store method releases the lock on every return path: a
\* goroutine that is not in a Store method holds the lock neither as the
\* writer nor as a reader, so that the calls that follow can take it.
C28_ReturnReleasesLock ==
  \A g \in Goroutines :
    pc[g].at = "idle" => (mu.w # g /\ g \notin mu.r)

\* the records of bytes: position (from 1) and number of bytes of each
RECURSIVE recordsFrom(_, _)
recordsFrom(bytes, p) ==
  IF p > Len(bytes) THEN <<>>
  ELSE <<[p |-> p, bytes |-> next(bytes, p).bytes]>>
         \o recordsFrom(bytes, p + next(bytes, p).bytes)

\* every record of bytes is byte for byte encode(n, v) of the run it
\* holds: 1 to 5 bytes, the continuation bit on every byte but the last,
\* and no zero last byte in a record of several bytes
Minimal(bytes) ==
  \A i \in DOMAIN recordsFrom(bytes, 1) :
    LET rec == recordsFrom(bytes, 1)[i]
        r == next(bytes, rec.p)
        b == SubSeq(bytes, rec.p, rec.p + rec.bytes - 1)
    IN /\ b = encode(r.n, r.v)
       /\ Len(b) \in 1..5
       /\ \A j \in 1..(Len(b) - 1) : b[j] >= 128
       /\ b[Len(b)] < 128
       /\ Len(b) > 1 => b[Len(b)] # 0

\* C30: data holds minimal records, and still does after each public
\* mutation: an Add or Roll at the next slot or one slot further, which
\* extends the last run in place or appends a run; a SetLength or a
\* TrimLeft that leaves any number of slots.
C30_RecordsMinimal ==
  /\ Minimal(data)
  /\ \A x \in Values, gap \in 0..1 :
       /\ Minimal(Add(Seq0, ts + (count + gap) * frequency, x).s.data)
       /\ Minimal(Roll(Seq0, ts + (count + gap) * frequency, x).s.data)
  /\ \A c \in CodecRuns \cup Lengths :
       /\ Minimal(SetLength(Seq0, c).data)
       /\ c < count =>
            Minimal(TrimLeft(Seq0, ts + (count - c) * frequency).s.data)

\* C30 witness: a run whose record of four bytes holds all it can: one
\* more sample of the same value makes the record five bytes, in place, and
\* then a SetLength or a TrimLeft that drops one slot makes it a byte
\* shorter again.
C30_Witness ==
  /\ Len(Runs(data)) = 1 /\ count < length /\ Len(data) = 4
  /\ \E x \in Values :
       LET grown == Add(Seq0, ts + count * frequency, x).s
       IN /\ Len(Runs(grown.data)) = 1
          /\ Len(grown.data) = Len(data) + 1
          /\ Len(SetLength(grown, count).data) = Len(data)
          /\ Len(TrimLeft(grown, grown.ts + grown.frequency).s.data)
               = Len(data)

\* byte strings made from the record in data: the record itself, the record
\* with the continuation bit set on its last byte or cleared on one of its
\* other bytes, and the record followed by one more byte
Mangled(bytes) ==
  IF bytes = <<>> THEN {}
  ELSE {bytes, [bytes EXCEPT ![Len(bytes)] = (@ % 128) + 128]}
         \cup {[bytes EXCEPT ![i] = @ % 128] : i \in 1..(Len(bytes) - 1)}
         \cup {bytes \o <<b>> : b \in {0, 4, 127, 128, 255}}

\* C31: decode returns the error result (0, 0, 0) for every byte string
\* whose last byte has the continuation bit set and for every byte string
\* in which a byte before the last has it clear.
C31_DecodeRejects ==
  \A buf \in Mangled(data) :
    (\/ buf[Len(buf)] >= 128
     \/ \E i \in 1..(Len(buf) - 1) : buf[i] < 128)
      => decode(buf) = decodeError

\* C31 witness: a record of five bytes, from which strings of both kinds
\* are made and refused while the record itself is decoded.
C31_Witness ==
  /\ Len(data) = 5
  /\ decode(data) # decodeError
  /\ decode([data EXCEPT ![5] = @ + 128]) = decodeError
  /\ decode([data EXCEPT ![3] = @ % 128]) = decodeError

\* C32: TrimLeft(t) never modifies a sequence when t <= ts: with
\* x = ceil((t - ts)/frequency) it fails with out of bounds when x < 0 and
\* returns nil when x = 0, and ts, count and data are as they were in both
\* cases.
C32_TrimLeftBeforeStart ==
  \A t \in Times :
    t <= ts =>
      LET r == TrimLeft(Seq0, t)
          x == CeilDiv(t - ts, frequency)
      IN /\ r.s = Seq0
         /\ x < 0 => r.err = ErrOutOfBounds
         /\ x = 0 => r.err = ErrNil

\* C40: for every integer x, negative included, and every step >= 1,
\* ceilInt64(x, step) is the least multiple of step greater than or equal
\* to x. The x are the distances t - ts the methods hand to it, the steps
\* the frequencies.
C40_CeilIsLeastMultiple ==
  \A t \in Times :
    LET x == t - ts
        c == ceilInt64(x, frequency)
    IN /\ c % frequency = 0
       /\ c >= x
       /\ c - frequency < x

\* the closed intervals [a, b] with a <= b over the times of the model
TimeFilters == {i \in [start : Times, end : Times] : i.start <= i.end}

\* C33: for closed intervals x = [s1, e1] and y = [s2, e2] with s1 <= e1 and
\* s2 <= e2, intersect reports no overlap exactly when e1 < s2 or e2 < s1,
\* returns [max(s1, s2), min(e1, e2)] otherwise, and gives the same result
\* with its arguments swapped. x is the interval of the sequence, when its
\* length is at least 1, or a time filter; y is a time filter.
C33_Intersect ==
  \A x \in TimeFilters \cup {i \in {interval(Seq0)} : i.start <= i.end},
     y \in TimeFilters :
    LET i == intersect(x, y)
    IN /\ ~i.ok <=> (x.end < y.start \/ y.end < x.start)
       /\ i.ok => i.r = [start |-> Max(x.start, y.start),
                         end |-> Min(x.end, y.end)]
       /\ intersect(y, x) = i

\* C33 witness: the sequence holds a few slots and time filters fall inside
\* its interval, around it, across its start, across its end and beside it.
C33_Witness ==
  LET x == interval(Seq0)
  IN /\ x.start < x.end /\ length <= MaxLen
     /\ \E y \in TimeFilters :
          x.start < y.start /\ y.end < x.end /\ intersect(x, y).r = y
     /\ \E y \in TimeFilters :
          y.start < x.start /\ x.end < y.end /\ intersect(x, y).r = x
     /\ \E y \in TimeFilters :
          /\ y.start < x.start /\ x.start < y.end /\ y.end < x.end
          /\ intersect(x, y).r = [start |-> x.start, end |-> y.end]
     /\ \E y \in TimeFilters :
          /\ x.start < y.start /\ y.start < x.end /\ x.end < y.end
          /\ intersect(x, y).r = [start |-> y.start, end |-> x.end]
     /\ \E y \in TimeFilters : ~intersect(x, y).ok

\* the general path of Roll at offset > length: trim the leftmost
\* offset - length slots as TrimLeft does, fill the gap that remains with
\* unknown, append x
RollGeneral(s, offset, x) ==
  LET over == offset - s.length
      trimmed == IF over >= s.count
                 THEN [s EXCEPT !.data = <<>>, !.count = 0,
                                !.ts = s.ts + over * s.frequency]
                 ELSE trimSlots(s, over)
      gap == (offset - over) - trimmed.count
      filled == IF gap > 1
                THEN addSeries(trimmed, Uint(gap) - 1, StateUnknown)
                ELSE trimmed
  IN addSeries(filled, 1, x)

\* Roll(t, x) takes one of its two fast paths
FullReset(s, offset) ==
  offset >= 1 /\ offset > s.count /\ offset > s.length
    /\ offset - s.length >= s.count

SingleSlot(s, offset, x) ==
  offset >= 1 /\ offset > s.count /\ offset > s.length
    /\ ~FullReset(s, offset)
    /\ offset - s.count = 1 /\ Len(s.data) = 1
    /\ s.data[1] % (flagBitsMask + 1) = x

\* C34: for every state and every (t, x) that takes the full-reset path or
\* the single-slot-advance path of Roll, the ts, length, count and All() it
\* leaves are those the general path leaves.
C34_RollFastPaths ==
  \A t \in Times, x \in Values :
    LET offset == Offset(Seq0, t)
        fast == Roll(Seq0, t, x).s
        slow == RollGeneral(Seq0, offset, x)
    IN (FullReset(Seq0, offset) \/ SingleSlot(Seq0, offset, x)) =>
         /\ fast.ts = slow.ts
         /\ fast.length = slow.length
         /\ fast.count = slow.count
         /\ All(fast) = All(slow)

\* C34 away from sequences of length 0
C34_RollFastPathsWithRoom == length >= 1 => C34_RollFastPaths

\* C35: for every start <= end and every accepted grouping interval, every
\* pass of the run walk of Query writes a group dst with
\* 0 <= dst < numberOfValues and an increment n with 1 <= n <= aggregation,
\* so Sum and Count are never indexed out of range, also when start lies
\* before ts or off the grid of the sequence.
C35_QueryStaysInRange ==
  \A i \in TimeFilters, d \in Durations :
    LET q == Query(Seq0, i.start, i.end, d)
        aggregation == d \div frequency
        numberOfValues == ((i.end - i.start) \div frequency) \div aggregation + 1
    IN aggregation >= 1 =>
         /\ ~q.panic
         /\ Len(q.count) = numberOfValues /\ Len(q.sum) = numberOfValues
         /\ \A p \in 1..Len(q.steps) :
              /\ 0 <= q.steps[p].dst /\ q.steps[p].dst < numberOfValues
              /\ 1 <= q.steps[p].n /\ q.steps[p].n <= aggregation

\* C35 witness: on a sequence of frequency 2 a query that starts before ts
\* and off its grid makes two passes, into two groups, and a grouped query
\* makes a pass of a whole group.
C35_Witness ==
  /\ frequency = 2 /\ count >= 2
  /\ \E i \in TimeFilters, d \in Durations :
       LET q == Query(Seq0, i.start, i.end, d)
       IN /\ i.start < ts /\ (ts - i.start) % frequency # 0
          /\ q.err = ErrNil /\ Len(q.steps) >= 2
          /\ q.steps[1].dst # q.steps[2].dst
  /\ \E i \in TimeFilters, d \in Durations :
       LET q == Query(Seq0, i.start, i.end, d)
       IN /\ q.err = ErrNil /\ d \div frequency >= 2
          /\ \E p \in 1..Len(q.steps) : q.steps[p].n = d \div frequency

\* C36: an Add or a Roll that returns an error leaves ts, frequency, length,
\* count and data exactly as they were.
C36_FailedCallChangesNothing ==
  \A t \in Times, x \in Values :
    /\ Add(Seq0, t, x).err # ErrNil => Add(Seq0, t, x).s = Seq0
    /\ Roll(Seq0, t, x).err # ErrNil => Roll(Seq0, t, x).s = Seq0

\* C36 witness: a populated sequence with room left on which an Add is
\* refused before its start, one past its end and one on a slot already
\* written, and a Roll before its start and one on a slot already written.
C36_Witness ==
  /\ count >= 1 /\ count < length /\ data # <<>>
  /\ \E t \in Times, x \in Values :
       /\ t < ts /\ Add(Seq0, t, x).err = ErrOutOfBounds
       /\ Roll(Seq0, t, x).err = ErrOutOfBounds
  /\ \E t \in Times, x \in Values :
       /\ Offset(Seq0, t) > length + 1
       /\ Add(Seq0, t, x).err = ErrOutOfBounds
  /\ \E t \in Times, x \in Values :
       /\ Add(Seq0, t, x).err = ErrCannotOverwrite
       /\ Roll(Seq0, t, x).err = ErrCannotOverwrite

\* the Create fields a statement can carry
Creates ==
  {[CreateIfNotExists |-> s.CreateIfNotExists,
    CreateWithTimestamp |-> s.CreateWithTimestamp,
    CreateWithFrequency |-> s.CreateWithFrequency,
    CreateWithLength |-> s.CreateWithLength] : s \in Statements}

\* C37: when Execute creates the Sequence of an absent key
\* (CreateIfNotExists) and the Add or Roll of the statement then fails, the
\* error is returned and the key stays in the Store, bound to an empty
\* Sequence (count 0, no data) made from the Create fields of the statement;
\* the other keys are untouched, and a later statement on that key finds the
\* Sequence and does not use its own Create fields.
C37_FailedCreateKeepsKey ==
  Unlocked =>
    \A statement \in Statements :
      LET e == Execute(St, statement)
          key == statement.Key
      IN (/\ statement.Type \in {StatementAdd, StatementRoll}
          /\ key \notin DOMAIN m /\ statement.CreateIfNotExists
          /\ e.err # ErrNil) =>
           /\ DOMAIN e.st.m = (DOMAIN m) \cup {key}
           /\ e.st.m[key] # 0
           /\ LET s == e.st.heap[e.st.m[key]]
              IN /\ s.count = 0 /\ s.data = <<>>
                 /\ s.ts = statement.CreateWithTimestamp
                 /\ s.frequency = statement.CreateWithFrequency
                 /\ s.length = IF statement.CreateWithLength > 0
                               THEN statement.CreateWithLength
                               ELSE MaxSequenceLength
           /\ \A k \in DOMAIN m : e.st.heap[e.st.m[k]] = heap[m[k]]
           /\ \A later \in Statements, c \in Creates :
                (later.Key = key /\ later.Type \in {StatementAdd, StatementRoll}) =>
                  /\ Execute(e.st, Recreate(later, c)) = Execute(e.st, later)
                  /\ Execute(e.st, later).err
                       = Dispatch(e.st.heap[e.st.m[key]], later).err

\* C37 witness: a key is absent and an Add and a Roll that create it are
\* both refused (their timestamp lies before the CreateWithTimestamp), and
\* a later Add on the key they leave succeeds with other Create fields.
C37_Witness ==
  /\ Unlocked
  /\ \E s \in Statements, t \in Statements :
       /\ s.Key \notin DOMAIN m /\ t.Key = s.Key
       /\ s.Type = StatementAdd /\ t.Type = StatementRoll
       /\ s.CreateIfNotExists /\ t.CreateIfNotExists
       /\ s.Timestamp < s.CreateWithTimestamp
       /\ t.Timestamp < t.CreateWithTimestamp
       /\ Execute(St, s).err = ErrOutOfBounds
       /\ Execute(St, t).err = ErrOutOfBounds
       /\ s.Key \in DOMAIN Execute(St, s).st.m
       /\ t.Key \in DOMAIN Execute(St, t).st.m
       /\ \E later \in Statements :
            /\ later.Key = s.Key /\ later.Type = StatementAdd
            /\ ~later.CreateIfNotExists
            /\ later.CreateWithLength # s.CreateWithLength
            /\ Execute(Execute(St, s).st, later).err = ErrNil

\* C38: in every reachable state of the Store, also after a Load that
\* returned a decoding error, every key of the map is bound to a Sequence
\* (no key is bound to nil), so that Get, Query, Dump and Shrink apply to
\* every key of Keys.
C38_KeysBoundToSequences ==
  \A key \in DOMAIN m : m[key] # 0 /\ m[key] \in DOMAIN heap

\* the timestamp of the last populated slot
LastSlot(s) == s.ts + (s.count - 1) * s.frequency

\* what one Add or Roll (its outcome r) does to the Sequence s
Advances(s, r) ==
  /\ r.s.frequency = s.frequency
  /\ r.s.ts >= s.ts
  /\ IF r.err = ErrNil THEN LastSlot(r.s) > LastSlot(s)
     ELSE LastSlot(r.s) = LastSlot(s)

\* C39: over every sequence of Add and Roll calls on one Sequence, the
\* timestamp of the last populated slot, ts + (count - 1) * frequency,
\* strictly increases at every call that succeeds and is unchanged at every
\* call that fails; ts never decreases and frequency never changes. Stated
\* for every call from every state, and for every step the calls take.
C39_LastSlotAdvances ==
  /\ [](\A t \in Times, x \in Values :
          /\ Advances(Seq0, Add(Seq0, t, x))
          /\ Advances(Seq0, Roll(Seq0, t, x)))
  /\ [][/\ frequency' = frequency
        /\ ts' >= ts
        /\ ts' + (count' - 1) * frequency' > ts + (count - 1) * frequency]_seqVars

\* C39 witness: after a Roll has moved the start of a populated Sequence,
\* an Add and a Roll are refused, and a Roll succeeds and moves the start
\* again.
C39_Witness ==
  /\ ts > Epoch /\ count >= 1
  /\ \E t \in Times, x \in Values : Add(Seq0, t, x).err # ErrNil
  /\ \E t \in Times, x \in Values :
       Roll(Seq0, t, x).err = ErrCannotOverwrite
  /\ \E t \in Times, x \in Values :
       Roll(Seq0, t, x).err = ErrNil /\ Roll(Seq0, t, x).s.ts > ts

====
